---- MODULE Spec2Model ----
(***************************************************************************)
(* A model of the WeApRous HTTP engine: the request parser                 *)
(* (daemon/request.py), the proxy's virtual-host configuration parser      *)
(* (start_proxy.py) and the backend selector the proxy is specified to     *)
(* have.                                                                   *)
(*                                                                         *)
(* Text is modelled as Python sees it: a str is a sequence of characters,  *)
(* each character a one-element string, so that splitting, stripping,      *)
(* lower-casing and encoding are computed character by character.          *)
(***************************************************************************)
EXTENDS Integers, Sequences, FiniteSets, TLC

VARIABLES
    \* ---- daemon.request.Request: the arguments of the call in progress
    request,        \* the raw message handed to the parser
    pc,             \* "new" | "returned" | "raised": how the call ended
    call,           \* which method of Request was called
    exc,            \* the exception that escaped the call, "" when none
    ret,            \* what extract_request_line / prepare_headers returned
    \* ---- daemon.request.Request: the object's attributes
    method, path, version, headers, cookies, body, routes, hook, auth,
    arg,            \* the argument of prepare_cookies / prepare_auth
    \* ---- start_proxy: the proxy process
    configText,     \* the text of the configuration file
    hostIp,         \* the --host address, None when not given
    proxyRoutes,    \* what parse_virtual_hosts returned, NoDict before it ran
    proxyPc,        \* "start" | "serving"
    \* ---- the proxy's backend selector
    cursor,         \* virtual host -> rotation cursor (absent means 0)
    lock,           \* virtual host -> the worker holding its lock, 0 when free
    workers,        \* per connection thread: where it is in a selection
    selections,     \* the selections made: <<host, cursor seen, backend>>
    \* ---- daemon.response.Response: one build_response call
    files,          \* the file system: path -> content
    hookResult,     \* the handler result handed to build_response
    response,       \* the bytes build_response returned
    respPc,         \* "new" | "returned" | "raised"
    respExc,        \* the exception that escaped build_response, "" when none
    opened,         \* the paths open() was called on, in order
    respHeaders,    \* Response.headers
    content,        \* Response._content
    \* ---- start_sampleapp: the tracker's module state
    peerDict,       \* PEER_DICT: (ip, port) -> peer
    activePeers,    \* active_peers
    database,       \* the rows of db/database.csv
    peerObjs,       \* the peer dicts register_peer_pool created, by identity
    peerIds,        \* PEER_DICT: which of those each entry refers to
    threads,        \* per connection thread: where it is in its handler
    \* ---- start_sampleapp: the peer's module state
    receivedMessages,   \* received_messages: (sender_ip, sender_port) -> body
    accepted,       \* the messages /receive-message answered success for
    polled          \* what each /get-received-messages call returned

reqVars == <<request, arg, pc, call, exc, ret,
             method, path, version, headers, cookies, body, routes, hook, auth>>

selVars == <<cursor, lock, workers, selections>>

proxyVars == <<configText, hostIp, proxyRoutes, proxyPc, selVars>>

respVars == <<files, hookResult, response, respPc, respExc, opened, respHeaders, content>>

threadVars == <<peerObjs, peerIds, threads>>

peerVars == <<receivedMessages, accepted, polled>>

trackerVars == <<peerDict, activePeers, database, threadVars, peerVars>>

\* What the parser and the proxy leave alone.
restVars == <<respVars, trackerVars>>

vars == <<reqVars, proxyVars, restVars>>

(***************************************************************************)
(* Python values.                                                          *)
(***************************************************************************)
\* None in a slot that otherwise holds a str or a handler.
None == <<"<None>">>
\* None in a slot that otherwise holds a dict (a dict is the sequence of its
\* (key, value) pairs in insertion order).
NoDict == << <<None, None>> >>
\* The attribute was never assigned (Request.__init__ sets neither version
\* nor auth).
Unset == <<"<unset>">>

\* The character '"' (U+0022).
Quote == "<quote>"

\* A character outside ASCII, two bytes long in UTF-8 (U+00E9).
EAcute == "<U+00E9>"

Utf8Width(c) == IF c = EAcute THEN 2 ELSE 1

RECURSIVE ByteLength(_)
\* len(s.encode('utf-8'))
ByteLength(s) ==
    IF s = <<>> THEN 0
    ELSE IF Len(s) = 1 THEN Utf8Width(s[1])
    ELSE ByteLength(SubSeq(s, 1, Len(s) \div 2))
         + ByteLength(SubSeq(s, (Len(s) \div 2) + 1, Len(s)))

UpperCase == <<"A","B","C","D","E","F","G","H","I","J","K","L","M",
               "N","O","P","Q","R","S","T","U","V","W","X","Y","Z">>
LowerCase == <<"a","b","c","d","e","f","g","h","i","j","k","l","m",
               "n","o","p","q","r","s","t","u","v","w","x","y","z">>

LowerChar(c) ==
    IF \E i \in DOMAIN UpperCase : UpperCase[i] = c
    THEN LowerCase[CHOOSE i \in DOMAIN UpperCase : UpperCase[i] = c]
    ELSE c

\* str.lower()
Lower(s) == [i \in 1..Len(s) |-> LowerChar(s[i])]

\* str.isspace() on the characters of the model
Whitespace == {" ", "\t", "\n", "\r", "\f"}
\* the line boundaries of str.splitlines() among them
LineBoundary == {"\n", "\r", "\f"}

\* s[i:i+len(sep)] == sep
OccursAt(s, sep, i) ==
    /\ i + Len(sep) - 1 <= Len(s)
    /\ \A j \in 1..Len(sep) : s[i + j - 1] = sep[j]

\* 1 + s.find(sep): the first place sep occurs at, 0 when it does not
Find(s, sep) ==
    IF \E i \in 1..Len(s) : OccursAt(s, sep, i)
    THEN CHOOSE i \in 1..Len(s) :
            /\ OccursAt(s, sep, i)
            /\ \A j \in 1..(i - 1) : ~OccursAt(s, sep, j)
    ELSE 0

\* sep in s
Contains(s, sep) == Find(s, sep) # 0

\* s.split(sep, 1)
SplitOnce(s, sep) ==
    LET i == Find(s, sep)
    IN  IF i = 0 THEN <<s>>
        ELSE <<SubSeq(s, 1, i - 1), SubSeq(s, i + Len(sep), Len(s))>>

RECURSIVE Split(_, _)
\* s.split(sep)
Split(s, sep) ==
    LET i == Find(s, sep)
    IN  IF i = 0 THEN <<s>>
        ELSE <<SubSeq(s, 1, i - 1)>> \o Split(SubSeq(s, i + Len(sep), Len(s)), sep)

RECURSIVE SplitWhitespaceFrom(_, _)
SplitWhitespaceFrom(s, cur) ==
    LET ws == {i \in 1..Len(s) : s[i] \in Whitespace}
    IN  IF ws = {} THEN (IF cur \o s = <<>> THEN <<>> ELSE <<cur \o s>>)
        ELSE LET i == CHOOSE k \in ws : \A j \in ws : k <= j
                 token == cur \o SubSeq(s, 1, i - 1)
             IN  (IF token = <<>> THEN <<>> ELSE <<token>>)
                 \o SplitWhitespaceFrom(SubSeq(s, i + 1, Len(s)), <<>>)

\* s.split(): the runs of non-whitespace characters
SplitWhitespace(s) == SplitWhitespaceFrom(s, <<>>)

RECURSIVE SplitLinesFrom(_, _)
SplitLinesFrom(s, cur) ==
    LET bs == {i \in 1..Len(s) : s[i] \in LineBoundary}
    IN  IF bs = {} THEN (IF cur \o s = <<>> THEN <<>> ELSE <<cur \o s>>)
        ELSE LET i == CHOOSE k \in bs : \A j \in bs : k <= j
                 next == IF s[i] = "\r" /\ i < Len(s) /\ s[i + 1] = "\n"
                         THEN i + 2 ELSE i + 1
             IN  <<cur \o SubSeq(s, 1, i - 1)>>
                 \o SplitLinesFrom(SubSeq(s, next, Len(s)), <<>>)

\* s.splitlines(): "\r\n" is one boundary, no empty last line
SplitLines(s) == SplitLinesFrom(s, <<>>)

RECURSIVE LStrip(_)
LStrip(s) == IF s # <<>> /\ Head(s) \in Whitespace THEN LStrip(Tail(s)) ELSE s

RECURSIVE RStrip(_)
RStrip(s) ==
    IF s # <<>> /\ s[Len(s)] \in Whitespace THEN RStrip(SubSeq(s, 1, Len(s) - 1)) ELSE s

\* s.strip()
Strip(s) == RStrip(LStrip(s))

\* s.startswith(prefix)
StartsWith(s, prefix) == OccursAt(s, prefix, 1)

Digits == <<"0","1","2","3","4","5","6","7","8","9">>

RECURSIVE IntToStr(_)
\* str(n) for n >= 0
IntToStr(n) ==
    IF n < 10 THEN <<Digits[n + 1]>>
    ELSE Append(IntToStr(n \div 10), Digits[(n % 10) + 1])

RECURSIVE Join(_, _)
\* sep.join(parts)
Join(sep, parts) ==
    IF parts = <<>> THEN <<>>
    ELSE IF Len(parts) = 1 THEN parts[1]
    ELSE parts[1] \o sep \o Join(sep, Tail(parts))

(***************************************************************************)
(* dict: the sequence of its (key, value) pairs in insertion order.        *)
(***************************************************************************)
DictHas(d, k) == \E i \in 1..Len(d) : d[i][1] = k

\* d.get(k, default)
DictGet(d, k, default) ==
    IF DictHas(d, k) THEN d[CHOOSE i \in 1..Len(d) : d[i][1] = k][2] ELSE default

\* d[k] = v
DictSet(d, k, v) ==
    IF DictHas(d, k)
    THEN [i \in 1..Len(d) |-> IF d[i][1] = k THEN <<k, v>> ELSE d[i]]
    ELSE Append(d, <<k, v>>)

\* d.pop(k, None)
DictPop(d, k) == SelectSeq(d, LAMBDA e : e[1] # k)

DictKeys(d) == {d[i][1] : i \in 1..Len(d)}

(***************************************************************************)
(* daemon.dictionary.CaseInsensitiveDict: keys compare without regard to   *)
(* case; an entry keeps the spelling of the key it was last set with and   *)
(* the place of its first insertion.                                       *)
(***************************************************************************)
CIHas(d, k) == \E i \in 1..Len(d) : Lower(d[i][1]) = Lower(k)

CIGet(d, k, default) ==
    IF CIHas(d, k)
    THEN d[CHOOSE i \in 1..Len(d) : Lower(d[i][1]) = Lower(k)][2]
    ELSE default

CISet(d, k, v) ==
    IF CIHas(d, k)
    THEN [i \in 1..Len(d) |-> IF Lower(d[i][1]) = Lower(k) THEN <<k, v>> ELSE d[i]]
    ELSE Append(d, <<k, v>>)

(***************************************************************************)
(* Literals of daemon/request.py.                                          *)
(***************************************************************************)
Slash == <<"/">>
IndexHtml == <<"/","i","n","d","e","x",".","h","t","m","l">>
CRLF == <<"\r","\n">>
ColonSpace == <<":"," ">>
BodyPattern == CRLF \o CRLF
CookieKey == <<"c","o","o","k","i","e">>
ContentLengthKey == <<"c","o","n","t","e","n","t","-","l","e","n","g","t","h">>
AuthorizationKey == <<"a","u","t","h","o","r","i","z","a","t","i","o","n">>

(***************************************************************************)
(* Request.extract_request_line                                            *)
(***************************************************************************)
\* The rewrite left out.
NormalizePathNever(p) == p

\* "if path == '/': path = '/index.html'"
NormalizePath(p) == IF p = Slash THEN IndexHtml ELSE p

\* The tuple the method returns: (method, path, version), or the two-element
\* (None, None) of its except branch, taken when lines[0] does not exist
\* (IndexError) or the first line does not unpack into three tokens
\* (ValueError).
ExtractRequestLine(req) ==
    LET lines == SplitLines(req)
    IN  IF lines = <<>> THEN <<None, None>>
        ELSE LET tokens == SplitWhitespace(lines[1])
             IN  IF Len(tokens) # 3 THEN <<None, None>>
                 ELSE <<tokens[1], NormalizePath(tokens[2]), tokens[3]>>

(***************************************************************************)
(* Request.prepare_headers                                                 *)
(***************************************************************************)
\* A repeated key keeps its first value.
HeaderLineKeepFirst(hs, line) ==
    IF Contains(line, ColonSpace)
    THEN LET kv == SplitOnce(line, ColonSpace)
         IN  IF DictHas(hs, Lower(kv[1])) THEN hs ELSE DictSet(hs, Lower(kv[1]), kv[2])
    ELSE hs

\* One pass of the loop body: "if ': ' in line: key, val = line.split(': ', 1);
\* headers[key.lower()] = val".
HeaderLine(hs, line) ==
    IF Contains(line, ColonSpace)
    THEN LET kv == SplitOnce(line, ColonSpace)
         IN  DictSet(hs, Lower(kv[1]), kv[2])
    ELSE hs

RECURSIVE HeaderLoop(_, _)
HeaderLoop(hs, lines) ==
    IF lines = <<>> THEN hs ELSE HeaderLoop(HeaderLine(hs, Head(lines)), Tail(lines))

\* "lines = request.split('\r\n'); for line in lines[1:]"
PrepareHeaders(req) == HeaderLoop(<<>>, Tail(Split(req, CRLF)))

(***************************************************************************)
(* Request.prepare_cookies (the str branch, the one Request.prepare takes) *)
(***************************************************************************)
\* The segment split on its last '=' (rsplit) instead of its first.
CookiePartLastEquals(parsed, rawPart) ==
    LET part == Strip(rawPart)
        eqs  == {i \in 1..Len(part) : part[i] = "="}
    IN  IF part = <<>> THEN parsed
        ELSE IF eqs # {}
             THEN LET i == CHOOSE i \in eqs : \A j \in eqs : j <= i
                  IN  CISet(parsed, Strip(SubSeq(part, 1, i - 1)),
                            Strip(SubSeq(part, i + 1, Len(part))))
             ELSE CISet(parsed, part, <<>>)

\* One pass of the loop over cookies.split(';').
CookiePart(parsed, rawPart) ==
    LET part == Strip(rawPart)
    IN  IF part = <<>> THEN parsed
        ELSE IF Contains(part, <<"=">>)
             THEN LET nv == SplitOnce(part, <<"=">>)
                  IN  CISet(parsed, Strip(nv[1]), Strip(nv[2]))
             ELSE CISet(parsed, part, <<>>)

RECURSIVE CookieLoop(_, _)
CookieLoop(parsed, parts) ==
    IF parts = <<>> THEN parsed
    ELSE CookieLoop(CookiePart(parsed, Head(parts)), Tail(parts))

\* self.cookies after the call
ParseCookies(cookieStr) == CookieLoop(<<>>, Split(cookieStr, <<";">>))

\* "; ".join(f"{k}={v}" for k, v in self.cookies.items())
CanonicalCookie(jar) ==
    Join(<<";", " ">>, [i \in 1..Len(jar) |-> jar[i][1] \o <<"=">> \o jar[i][2]])

\* self.headers after the call
CookieHeaders(hs, jar) ==
    LET h == IF hs = NoDict THEN <<>> ELSE hs
    IN  IF jar # <<>> THEN DictSet(h, CookieKey, CanonicalCookie(jar))
        ELSE DictPop(h, CookieKey)

(***************************************************************************)
(* Request.prepare_body / prepare_content_length                           *)
(***************************************************************************)
\* "request.split(body_pattern, 1)[1] if body_pattern in request else ''"
ExtractBody(req) ==
    IF Contains(req, BodyPattern) THEN SplitOnce(req, BodyPattern)[2] ELSE <<>>

\* "length = len(str(body).encode('utf-8'))"
ContentLength(b) == ByteLength(b)

\* self.headers after prepare_content_length
ContentLengthHeaders(hs, b) ==
    LET h == IF hs = NoDict THEN <<>> ELSE hs
    IN  DictSet(h, ContentLengthKey, IntToStr(ContentLength(b)))

(***************************************************************************)
(* Request.prepare                                                         *)
(***************************************************************************)
\* "routes.get((self.method, self.path))"
LookupHook(rt, m, p) == DictGet(rt, <<m, p>>, None)

\* The attributes of a Request right after Request.__init__.
FreshRequest ==
    /\ method = None /\ path = None /\ version = Unset
    /\ headers = NoDict /\ cookies = NoDict /\ body = None
    /\ routes = <<>> /\ hook = None /\ auth = Unset
    /\ pc = "new" /\ call = "" /\ exc = "" /\ ret = <<>>

\* No Request call in progress (the other components are being exercised).
RequestIdle == FreshRequest /\ request = <<>> /\ arg = <<>>

\* A handler that returned nothing.
PyNone == <<"none">>

\* A Response object on which build_response was not called: headers = {},
\* _content = False.
ResponseIdle ==
    /\ response = <<>> /\ respPc = "new" /\ respExc = "" /\ opened = <<>>
    /\ respHeaders = <<>> /\ content = <<>>

\* The tracker's module state at import: PEER_DICT = {}, active_peers = [].
TrackerIdle ==
    /\ peerDict = <<>> /\ activePeers = <<>>
    /\ peerObjs = <<>> /\ peerIds = <<>> /\ threads = <<>>
    /\ receivedMessages = <<>> /\ accepted = <<>> /\ polled = <<>>

\* Neither a Response nor the tracker is part of the run.
RestIdle ==
    /\ ResponseIdle /\ files = <<>> /\ hookResult = PyNone
    /\ TrackerIdle /\ database = <<>>

\* The connection threads of the proxy.
NumWorkers == 2
Workers == 1..NumWorkers

IdleWorker == [pc |-> "idle", host |-> <<>>, seen |-> 0]

\* No selection was made or is in progress.
SelectorIdle ==
    /\ cursor = <<>> /\ lock = <<>> /\ selections = <<>>
    /\ workers = [t \in Workers |-> IdleWorker]

\* The proxy process is not part of the run.
ProxyIdle ==
    /\ configText = <<>> /\ hostIp = None /\ proxyRoutes = NoDict /\ proxyPc = "start"
    /\ SelectorIdle

\* req.extract_request_line(request)
CallExtractRequestLine ==
    /\ pc = "new" /\ call = ""
    /\ call' = "extract_request_line"
    /\ ret' = ExtractRequestLine(request)
    /\ pc' = "returned"
    /\ UNCHANGED <<request, arg, exc, method, path, version, headers, cookies,
                   body, routes, hook, auth>>

\* req.prepare_headers(request)
CallPrepareHeaders ==
    /\ pc = "new" /\ call = ""
    /\ call' = "prepare_headers"
    /\ ret' = PrepareHeaders(request)
    /\ pc' = "returned"
    /\ UNCHANGED <<request, arg, exc, method, path, version, headers, cookies,
                   body, routes, hook, auth>>

\* req.prepare(request, routes=rt); rt = NoDict is the default routes=None.
Prepare(rt) ==
    /\ pc = "new" /\ call = ""
    /\ call' = "prepare"
    /\ LET line == ExtractRequestLine(request)
       IN  IF Len(line) # 3
           THEN \* "self.method, self.path, self.version = ..." cannot unpack the
                \* two-element tuple: ValueError, nothing assigned.
                /\ pc' = "raised" /\ exc' = "ValueError"
                /\ UNCHANGED <<method, path, version, headers, cookies, body,
                               routes, hook>>
           ELSE /\ method' = line[1] /\ path' = line[2] /\ version' = line[3]
                /\ IF rt = NoDict
                   THEN \* "not routes == {}" holds for None; None has no get().
                        /\ routes' = rt
                        /\ pc' = "raised" /\ exc' = "AttributeError"
                        /\ UNCHANGED <<headers, cookies, body, hook>>
                   ELSE LET hs0 == PrepareHeaders(request)
                            ck  == DictGet(hs0, CookieKey, <<>>)
                            jar == ParseCookies(ck)
                            hs1 == IF ck # <<>> THEN CookieHeaders(hs0, jar) ELSE hs0
                            b   == ExtractBody(request)
                        IN  /\ routes' = IF rt # <<>> THEN rt ELSE routes
                            /\ hook' = IF rt # <<>>
                                       THEN LookupHook(rt, line[1], line[2])
                                       ELSE hook
                            /\ cookies' = IF ck # <<>> THEN jar ELSE cookies
                            /\ headers' = ContentLengthHeaders(hs1, b)
                            /\ body' = b
                            /\ pc' = "returned" /\ exc' = ""
    /\ UNCHANGED <<request, arg, ret, auth>>

(***************************************************************************)
(* The messages the parser is run on.                                      *)
(***************************************************************************)
\* The longest message drawn from RawAlphabet.
MaxRawLen == 5
\* The most header lines of a well-framed message.
MaxHeaderLines == 3

RawAlphabet == {"G", "/", " ", "\n"}

\* Every text of at most n characters of alphabet A.
TextsUpTo(A, n) == UNION {[1..k -> A] : k \in 0..n}

GET == <<"G","E","T">>
POST == <<"P","O","S","T">>
Http11 == <<"H","T","T","P","/","1",".","1">>
LoginPath == <<"/","l","o","g","i","n">>
SP == <<" ">>

RequestLines ==
    { GET \o SP \o Slash \o SP \o Http11,
      GET \o SP \o LoginPath \o SP \o Http11,
      POST \o SP \o LoginPath \o SP \o Http11,
      GET \o SP \o Slash }

HeaderLines ==
    { <<"H","o","s","t",":"," ","a">>,
      <<"H","O","S","T",":"," ","b">>,
      <<"C","o","o","k","i","e",":"," ","a","u","t","h","=","t","r","u","e">>,
      <<"C","o","n","t","e","n","t","-","L","e","n","g","t","h",":"," ","9","9">>,
      <<"X","-","J","u","n","k">>,
      <<"A",":"," ","b",":"," ","c">> }

HeaderBlocks == UNION {[1..k -> HeaderLines] : k \in 0..MaxHeaderLines}

\* A five-character body, six bytes long.
Hello == <<"h", EAcute, "l", "l", "o">>

\* What follows the header block: nothing at all, or the blank line and a body.
Tails ==
    { <<>>,
      BodyPattern,
      BodyPattern \o Hello,
      BodyPattern \o <<"x">> \o CRLF \o <<"H","o","s","t",":"," ","e","v","i","l">> }

Framed(l, hb, t) == Join(CRLF, <<l>> \o hb) \o t

\* Every request line under the blocks of at most one header line, and the
\* well-formed root request under every block.
FramedMessages ==
    { Framed(l, hb, t) :
        l \in RequestLines, hb \in {b \in HeaderBlocks : Len(b) <= 1}, t \in Tails }
    \cup
    { Framed(GET \o SP \o Slash \o SP \o Http11, hb, t) : hb \in HeaderBlocks, t \in Tails }

Messages == TextsUpTo(RawAlphabet, MaxRawLen) \cup FramedMessages

IndexHandler == <<"index_handler">>
LoginHandler == <<"login_handler">>
RootHandler == <<"root_handler">>

\* The route tables prepare is given: none (None), the empty one, and one with
\* handlers, among them one registered under the path "/" as the client sends it.
RouteTables ==
    { NoDict,
      <<>>,
      << <<<<GET, IndexHtml>>, IndexHandler>>,
         <<<<POST, LoginPath>>, LoginHandler>>,
         <<<<GET, Slash>>, RootHandler>> >> }

InitRequest ==
    /\ FreshRequest
    /\ request \in Messages
    /\ arg = <<>>
    /\ ProxyIdle
    /\ RestIdle

NextRequest ==
    /\ \/ CallExtractRequestLine
       \/ CallPrepareHeaders
       \/ \E rt \in RouteTables : Prepare(rt)
    /\ UNCHANGED <<proxyVars, restVars>>

SpecRequest == InitRequest /\ [][NextRequest]_vars

(***************************************************************************)
(* What the claims about the parser speak of, stated on the message itself.*)
(***************************************************************************)
\* s[i..j] is a maximal run of non-whitespace characters of s.
IsToken(s, i, j) ==
    /\ i <= j
    /\ \A k \in i..j : s[k] \notin Whitespace
    /\ i = 1 \/ s[i - 1] \in Whitespace
    /\ j = Len(s) \/ s[j + 1] \in Whitespace

TokenSpans(s) == {sp \in (1..Len(s)) \X (1..Len(s)) : IsToken(s, sp[1], sp[2])}

\* The n-th token of s, counted from 1.
TokenAt(s, n) ==
    LET sp == CHOOSE t \in TokenSpans(s) :
                  Cardinality({u \in TokenSpans(s) : u[1] < t[1]}) = n - 1
    IN  SubSeq(s, sp[1], sp[2])

\* The first line of a message: what precedes its first line boundary.
FirstLine(req) ==
    IF \E k \in 1..Len(req) : req[k] \in LineBoundary
    THEN SubSeq(req, 1, (CHOOSE k \in 1..Len(req) :
                            /\ req[k] \in LineBoundary
                            /\ \A j \in 1..(k - 1) : req[j] \notin LineBoundary) - 1)
    ELSE req

\* The first line is "<METHOD> <PATH> <VERSION>".
WellFormedLine(req) == req # <<>> /\ Cardinality(TokenSpans(FirstLine(req))) = 3

\* C1: for every request whose first line is three whitespace-separated
\* tokens, extract_request_line returns exactly those tokens as (method, path,
\* version), the path "/" returned as "/index.html" and no other path rewritten.
C1_RequestLineTokens ==
    (call = "extract_request_line" /\ WellFormedLine(request)) =>
        LET l == FirstLine(request)
        IN  /\ Len(ret) = 3
            /\ ret[1] = TokenAt(l, 1)
            /\ ret[2] = (IF TokenAt(l, 2) = Slash THEN IndexHtml ELSE TokenAt(l, 2))
            /\ ret[3] = TokenAt(l, 3)

\* A request line whose path is "/" was parsed.
C1_Witness ==
    /\ call = "extract_request_line" /\ WellFormedLine(request)
    /\ TokenAt(FirstLine(request), 2) = Slash
    /\ ret[2] = IndexHtml

\* The lines of the header block as prepare_headers takes them: all the
\* CRLF-separated lines after the first.
BlockLines(req) == Tail(Split(req, CRLF))

IsPairLine(line) == \E i \in 1..Len(line) : OccursAt(line, ColonSpace, i)

\* Where the first ": " of a "Key: Value" line is.
FirstColon(line) ==
    CHOOSE i \in 1..Len(line) :
        /\ OccursAt(line, ColonSpace, i)
        /\ \A j \in 1..(i - 1) : ~OccursAt(line, ColonSpace, j)

KeyOf(line) == Lower(SubSeq(line, 1, FirstColon(line) - 1))
ValueOf(line) == SubSeq(line, FirstColon(line) + 2, Len(line))

\* C2: prepare_headers yields a map in which every "Key: Value" line appears
\* exactly once under its lower-cased key, with the text after the first ": "
\* as value; a repeated key keeps the value of its last line; a line without
\* ": " adds no entry.
C2_HeaderMap ==
    call = "prepare_headers" =>
        LET ls    == BlockLines(request)
            pairs == {i \in 1..Len(ls) : IsPairLine(ls[i])}
        IN  /\ DictKeys(ret) = {KeyOf(ls[i]) : i \in pairs}
            /\ Cardinality(DictKeys(ret)) = Len(ret)
            /\ \A i \in pairs :
                   (\A j \in pairs : j > i => KeyOf(ls[j]) # KeyOf(ls[i]))
                       => DictGet(ret, KeyOf(ls[i]), None) = ValueOf(ls[i])

\* A block with a key repeated under different spellings and values, and a
\* line without ": ".
C2_Witness ==
    /\ call = "prepare_headers"
    /\ LET ls == BlockLines(request)
       IN  /\ \E i, j \in 1..Len(ls) :
                  /\ i < j /\ IsPairLine(ls[i]) /\ IsPairLine(ls[j])
                  /\ KeyOf(ls[i]) = KeyOf(ls[j]) /\ ValueOf(ls[i]) # ValueOf(ls[j])
                  /\ DictGet(ret, KeyOf(ls[i]), None) = ValueOf(ls[j])
           /\ \E i \in 1..Len(ls) : ls[i] # <<>> /\ ~IsPairLine(ls[i])

\* The body of a message: everything after its first CRLFCRLF, empty when it
\* has none.
BodyOf(req) ==
    IF \E i \in 1..Len(req) : OccursAt(req, BodyPattern, i)
    THEN SubSeq(req, 4 + (CHOOSE i \in 1..Len(req) :
                              /\ OccursAt(req, BodyPattern, i)
                              /\ \A j \in 1..(i - 1) : ~OccursAt(req, BodyPattern, j)),
                Len(req))
    ELSE <<>>

\* The number of bytes of the UTF-8 encoding of a text.
Utf8Bytes(s) == Len(s) + Cardinality({i \in 1..Len(s) : s[i] = EAcute})

RECURSIVE DecimalValue(_)
\* int(s) for a text of decimal digits
DecimalValue(s) ==
    IF s = <<>> THEN 0
    ELSE 10 * DecimalValue(SubSeq(s, 1, Len(s) - 1))
         + (CHOOSE d \in 0..9 : Digits[d + 1] = s[Len(s)])

\* headers["content-length"] is the byte length of the message's body.
ContentLengthExact ==
    /\ headers # NoDict
    /\ DictHas(headers, ContentLengthKey)
    /\ DecimalValue(DictGet(headers, ContentLengthKey, <<>>)) = Utf8Bytes(BodyOf(request))

\* C3: after Request.prepare on any message, headers["content-length"] equals
\* the exact UTF-8 byte length of the extracted body, whatever Content-Length
\* the client sent.
C3_ContentLengthAlways == call = "prepare" => ContentLengthExact

\* What the code does keep of C3: whenever prepare returns, the header is exact.
ContentLengthWhenReturned ==
    (call = "prepare" /\ pc = "returned") => (body = BodyOf(request) /\ ContentLengthExact)

\* C5: no parse failure ever raises: prepare on a message whose first line is
\* malformed, or on empty input, completes, leaves method, path and version as
\* empty sentinels and still produces headers, body and content-length.
C5_MalformedLineDegrades ==
    (call = "prepare" /\ ~WellFormedLine(request)) =>
        /\ pc = "returned"
        /\ method = None /\ path = None /\ version = None
        /\ headers # NoDict /\ DictHas(headers, ContentLengthKey)
        /\ body = BodyOf(request)

\* The handler a table holds for the parsed method and the normalized path.
RegisteredHandler(tbl, req) ==
    LET l   == FirstLine(req)
        key == <<TokenAt(l, 1), IF TokenAt(l, 2) = Slash THEN IndexHtml ELSE TokenAt(l, 2)>>
    IN  IF \E i \in 1..Len(tbl) : tbl[i][1] = key
        THEN tbl[CHOOSE i \in 1..Len(tbl) : tbl[i][1] = key][2]
        ELSE None

\* C7: route lookup is exact-match only: after prepare(request, routes) the
\* hook is the handler registered under exactly (method, normalized path), and
\* is empty otherwise, also when the table is empty or no table is supplied;
\* prepare never fails because of a missing route.
C7_ExactRouteLookup ==
    (call = "prepare" /\ WellFormedLine(request)) =>
        /\ pc = "returned"
        /\ hook = RegisteredHandler(IF routes = NoDict THEN <<>> ELSE routes, request)

\* What the code does keep of C7: with a table supplied, the lookup is exact.
ExactLookupWhenTableSupplied ==
    (call = "prepare" /\ WellFormedLine(request) /\ routes # NoDict) =>
        /\ pc = "returned"
        /\ hook = RegisteredHandler(routes, request)

(***************************************************************************)
(* Request.prepare_cookies on its own, and its canonical header parsed     *)
(* again.                                                                  *)
(***************************************************************************)
\* req.prepare_cookies(arg)
CallPrepareCookies ==
    /\ pc = "new" /\ call = ""
    /\ call' = "prepare_cookies"
    /\ cookies' = ParseCookies(arg)
    /\ headers' = CookieHeaders(headers, ParseCookies(arg))
    /\ pc' = "returned"
    /\ UNCHANGED <<request, arg, exc, ret, method, path, version, body, routes,
                   hook, auth>>

\* The canonical Cookie header of the first call handed to prepare_cookies
\* again; ret keeps the cookies of the first call.
CallPrepareCookiesAgain ==
    /\ pc = "returned" /\ call = "prepare_cookies"
    /\ DictHas(headers, CookieKey)
    /\ call' = "prepare_cookies_again"
    /\ ret' = cookies
    /\ LET jar == ParseCookies(DictGet(headers, CookieKey, <<>>))
       IN  /\ cookies' = jar
           /\ headers' = CookieHeaders(headers, jar)
    /\ UNCHANGED <<request, arg, pc, exc, method, path, version, body, routes,
                   hook, auth>>

\* The longest Cookie value drawn from CookieAlphabet.
MaxCookieLen == 5

CookieAlphabet == {"a", "A", "=", ";", " "}

CookieExample == <<"a","=","1",";"," ","b","=","2">>

CookieValues ==
    TextsUpTo(CookieAlphabet, MaxCookieLen)
    \cup { CookieExample,
           <<"a","u","t","h","=","t","r","u","e">>,
           <<"k","=","x","=","y",";","K","=","z",";"," ","f","l","a","g">> }

InitCookies ==
    /\ FreshRequest
    /\ request = <<>>
    /\ arg \in CookieValues
    /\ ProxyIdle
    /\ RestIdle

NextCookies ==
    /\ \/ CallPrepareCookies
       \/ CallPrepareCookiesAgain
    /\ UNCHANGED <<proxyVars, restVars>>

SpecCookies == InitCookies /\ [][NextCookies]_vars

\* The segments of a Cookie value that are not blank, each stripped.
Segments(v) ==
    LET parts == Split(v, <<";">>)
    IN  SelectSeq([i \in 1..Len(parts) |-> Strip(parts[i])], LAMBDA x : x # <<>>)

HasEquals(seg) == \E i \in 1..Len(seg) : seg[i] = "="

FirstEquals(seg) ==
    CHOOSE i \in 1..Len(seg) : seg[i] = "=" /\ \A j \in 1..(i - 1) : seg[j] # "="

NameOf(seg) ==
    IF HasEquals(seg) THEN Strip(SubSeq(seg, 1, FirstEquals(seg) - 1)) ELSE seg

CookieValueOf(seg) ==
    IF HasEquals(seg) THEN Strip(SubSeq(seg, FirstEquals(seg) + 1, Len(seg))) ELSE <<>>

\* A cookie jar as a map: its (lower-cased name, value) pairs.
JarMap(jar) == {<<Lower(jar[i][1]), jar[i][2]>> : i \in 1..Len(jar)}

\* C4: prepare_cookies splits the value on ';' and each segment on its first
\* '=' (value "" without '='), so "a=1; b=2" parses to {a: "1", b: "2"}; the
\* canonical header joins the pairs with "; "; and parsing the canonical header
\* again yields the same name-to-value map.
C4_CookieRoundTrip ==
    /\ call = "prepare_cookies" =>
           LET segs == Segments(arg)
           IN  /\ {Lower(k) : k \in DictKeys(cookies)}
                      = {Lower(NameOf(segs[i])) : i \in 1..Len(segs)}
               /\ Cardinality(JarMap(cookies)) = Len(cookies)
               /\ \A i \in 1..Len(segs) :
                      (\A j \in 1..Len(segs) :
                           j > i => Lower(NameOf(segs[j])) # Lower(NameOf(segs[i])))
                          => <<Lower(NameOf(segs[i])), CookieValueOf(segs[i])>>
                                 \in JarMap(cookies)
               /\ arg = CookieExample =>
                      cookies = << <<<<"a">>, <<"1">>>>, <<<<"b">>, <<"2">>>> >>
               /\ cookies # <<>> =>
                      /\ DictHas(headers, CookieKey)
                      /\ Split(DictGet(headers, CookieKey, <<>>), <<";", " ">>)
                             = [i \in 1..Len(cookies) |->
                                    cookies[i][1] \o <<"=">> \o cookies[i][2]]
               /\ cookies = <<>> => ~DictHas(headers, CookieKey)
    /\ call = "prepare_cookies_again" => JarMap(cookies) = JarMap(ret)

\* The example of the spec went round: parsed, re-serialized, parsed again.
C4_Witness ==
    /\ call = "prepare_cookies_again"
    /\ arg = CookieExample
    /\ ret = << <<<<"a">>, <<"1">>>>, <<<<"b">>, <<"2">>>> >>
    /\ DictGet(headers, CookieKey, <<>>) = CookieExample
    /\ JarMap(cookies) = {<<<<"a">>, <<"1">>>>, <<<<"b">>, <<"2">>>>}

(***************************************************************************)
(* base64.b64decode(...).decode("utf-8"), as Request.prepare_auth uses it. *)
(***************************************************************************)
\* The characters of code points 32..126 (34, 92 and 96 under a name).
Ascii ==
    <<" ","!","<quote>","#","$","%","&","'","(",")","*","+",",","-",".","/",
      "0","1","2","3","4","5","6","7","8","9",":",";","<","=",">","?",
      "@","A","B","C","D","E","F","G","H","I","J","K","L","M","N","O",
      "P","Q","R","S","T","U","V","W","X","Y","Z","[","<backslash>","]","^","_",
      "<backtick>","a","b","c","d","e","f","g","h","i","j","k","l","m","n","o",
      "p","q","r","s","t","u","v","w","x","y","z","{","|","}","~">>

B64Alphabet ==
    <<"A","B","C","D","E","F","G","H","I","J","K","L","M","N","O","P",
      "Q","R","S","T","U","V","W","X","Y","Z","a","b","c","d","e","f",
      "g","h","i","j","k","l","m","n","o","p","q","r","s","t","u","v",
      "w","x","y","z","0","1","2","3","4","5","6","7","8","9","+","/">>

\* ord(c) for the characters of the model
Ord(c) ==
    IF \E i \in DOMAIN Ascii : Ascii[i] = c
    THEN 31 + (CHOOSE i \in DOMAIN Ascii : Ascii[i] = c)
    ELSE CASE c = "\t" -> 9 [] c = "\n" -> 10 [] c = "\f" -> 12 [] c = "\r" -> 13
           [] c = EAcute -> 233

\* chr(n)
Chr(n) ==
    IF n \in 32..126 THEN Ascii[n - 31]
    ELSE CASE n = 9 -> "\t" [] n = 10 -> "\n" [] n = 12 -> "\f" [] n = 13 -> "\r"
           [] n = 233 -> EAcute
           [] OTHER -> "<U+" \o ToString(n) \o ">"

IsB64Char(c) == \E i \in DOMAIN B64Alphabet : B64Alphabet[i] = c

Sextet(c) == (CHOOSE i \in DOMAIN B64Alphabet : B64Alphabet[i] = c) - 1

RECURSIVE B64Scan(_, _, _)
\* binascii.a2b_base64, not strict: characters outside the alphabet are
\* skipped; '=' ends the data once the quad in progress is padded to four;
\* the data must otherwise end on a whole quad.  The result is the sextets read,
\* or <<-1>> for binascii.Error.
B64Scan(s, sextets, pads) ==
    LET quadPos == Len(sextets) % 4
    IN  IF s = <<>> THEN (IF quadPos = 0 THEN sextets ELSE <<-1>>)
        ELSE IF Head(s) = "="
             THEN IF quadPos >= 2 /\ quadPos + pads + 1 >= 4 THEN sextets
                  ELSE B64Scan(Tail(s), sextets, IF quadPos >= 2 THEN pads + 1 ELSE pads)
        ELSE IF IsB64Char(Head(s))
             THEN B64Scan(Tail(s), Append(sextets, Sextet(Head(s))), 0)
        ELSE B64Scan(Tail(s), sextets, pads)

RECURSIVE SextetsToBytes(_)
SextetsToBytes(x) ==
    IF Len(x) < 2 THEN <<>>
    ELSE IF Len(x) = 2 THEN <<(x[1] * 4) + (x[2] \div 16)>>
    ELSE IF Len(x) = 3
         THEN <<(x[1] * 4) + (x[2] \div 16), ((x[2] % 16) * 16) + (x[3] \div 4)>>
    ELSE <<(x[1] * 4) + (x[2] \div 16), ((x[2] % 16) * 16) + (x[3] \div 4),
           ((x[3] % 4) * 64) + x[4]>> \o SextetsToBytes(SubSeq(x, 5, Len(x)))

IsCont(b) == b \in 128..191

\* How many bytes the UTF-8 sequence starting s takes, 0 when it is invalid.
Utf8SeqLen(s) ==
    LET b == s[1]
        n == Len(s)
    IN  IF b <= 127 THEN 1
        ELSE IF b \in 194..223 THEN (IF n >= 2 /\ IsCont(s[2]) THEN 2 ELSE 0)
        ELSE IF b \in 224..239
             THEN (IF /\ n >= 3 /\ IsCont(s[2]) /\ IsCont(s[3])
                      /\ (b = 224 => s[2] >= 160)
                      /\ (b = 237 => s[2] <= 159)
                   THEN 3 ELSE 0)
        ELSE IF b \in 240..244
             THEN (IF /\ n >= 4 /\ IsCont(s[2]) /\ IsCont(s[3]) /\ IsCont(s[4])
                      /\ (b = 240 => s[2] >= 144)
                      /\ (b = 244 => s[2] <= 143)
                   THEN 4 ELSE 0)
        ELSE 0

Utf8CodePoint(s, k) ==
    CASE k = 1 -> s[1]
      [] k = 2 -> ((s[1] % 32) * 64) + (s[2] % 64)
      [] k = 3 -> ((s[1] % 16) * 4096) + ((s[2] % 64) * 64) + (s[3] % 64)
      [] k = 4 -> ((s[1] % 8) * 262144) + ((s[2] % 64) * 4096)
                  + ((s[3] % 64) * 64) + (s[4] % 64)

\* What stands for a decoding that raised.
DecodeError == <<"<error>">>

RECURSIVE Utf8Decode(_)
\* bytes.decode("utf-8"): the text, or DecodeError for UnicodeDecodeError
Utf8Decode(bytes) ==
    IF bytes = <<>> THEN <<>>
    ELSE LET k == Utf8SeqLen(bytes)
         IN  IF k = 0 THEN DecodeError
             ELSE LET rest == Utf8Decode(SubSeq(bytes, k + 1, Len(bytes)))
                  IN  IF rest = DecodeError THEN DecodeError
                      ELSE <<Chr(Utf8CodePoint(bytes, k))>> \o rest

\* base64.b64decode(b64).decode("utf-8"): the text, or DecodeError when either
\* step raises (a str holding a character outside ASCII: ValueError).
DecodeBasic(b64) ==
    IF \E i \in 1..Len(b64) : Ord(b64[i]) > 127 THEN DecodeError
    ELSE LET sx == B64Scan(b64, <<>>, 0)
         IN  IF sx = <<-1>> THEN DecodeError ELSE Utf8Decode(SextetsToBytes(sx))

(***************************************************************************)
(* Request.prepare_auth                                                    *)
(***************************************************************************)
BasicTag == <<"b","a","s","i","c">>
BearerTag == <<"b","e","a","r","e","r">>
DigestTag == <<"d","i","g","e","s","t">>
UnknownTag == <<"u","n","k","n","o","w","n">>

\* s.split(None, 1)
SplitWhitespaceOnce(s) ==
    LET t  == LStrip(s)
        ws == {i \in 1..Len(t) : t[i] \in Whitespace}
    IN  IF t = <<>> THEN <<>>
        ELSE IF ws = {} THEN <<t>>
        ELSE LET i    == CHOOSE i \in ws : \A j \in ws : i <= j
                 rest == LStrip(SubSeq(t, i, Len(t)))
             IN  IF rest = <<>> THEN <<SubSeq(t, 1, i - 1)>>
                 ELSE <<SubSeq(t, 1, i - 1), rest>>

\* The decoded text split on its last ':' (rsplit) instead of its first.
BasicCredentialsLastColon(b64) ==
    LET decoded == DecodeBasic(b64)
        colons  == {i \in 1..Len(decoded) : decoded[i] = ":"}
    IN  IF decoded = DecodeError \/ colons = {} THEN <<BasicTag, None>>
        ELSE LET i == CHOOSE i \in colons : \A j \in colons : j <= i
             IN  <<SubSeq(decoded, 1, i - 1), SubSeq(decoded, i + 1, Len(decoded))>>

\* The try block of the Basic branch: (username, password), or ("basic", None)
\* when b64decode, decode or the unpacking of split(":", 1) raises.
BasicCredentials(b64) ==
    LET decoded == DecodeBasic(b64)
    IN  IF decoded = DecodeError THEN <<BasicTag, None>>
        ELSE IF ~Contains(decoded, <<":">>) THEN <<BasicTag, None>>
        ELSE LET up == SplitOnce(decoded, <<":">>) IN <<up[1], up[2]>>

\* What prepare_auth assigns to self.auth for a header that is not empty.
AuthTuple(value) ==
    LET header == Strip(value)
        low    == Lower(header)
    IN  IF StartsWith(low, BasicTag \o SP)
        THEN BasicCredentials(SplitWhitespaceOnce(header)[2])
        ELSE IF StartsWith(low, BearerTag \o SP)
        THEN <<BearerTag, SplitWhitespaceOnce(header)[2]>>
        ELSE IF StartsWith(low, DigestTag \o SP)
        THEN <<DigestTag, header>>
        ELSE <<UnknownTag, None>>

\* req.prepare_auth(arg)
CallPrepareAuth ==
    /\ pc = "new" /\ call = ""
    /\ call' = "prepare_auth"
    /\ IF arg = <<>> /\ headers = NoDict
       THEN \* "auth or self.headers.get(...)": None has no get()
            /\ pc' = "raised" /\ exc' = "AttributeError"
            /\ UNCHANGED auth
       ELSE LET header == IF arg # <<>> THEN arg
                          ELSE DictGet(headers, AuthorizationKey, <<>>)
            IN  /\ auth' = IF header = <<>> THEN auth ELSE AuthTuple(header)
                /\ pc' = "returned" /\ exc' = ""
    /\ UNCHANGED <<request, arg, ret, method, path, version, headers, cookies,
                   body, routes, hook>>

(***************************************************************************)
(* The Authorization values prepare_auth is run on.                        *)
(***************************************************************************)
\* The longest "user:pass" text that is encoded.
MaxCredLen == 3

CredAlphabet == {"u", ":", EAcute}

CredTexts == TextsUpTo(CredAlphabet, MaxCredLen)

RECURSIVE Utf8Encode(_)
\* s.encode("utf-8") for the characters of the model
Utf8Encode(s) ==
    IF s = <<>> THEN <<>>
    ELSE (IF Ord(Head(s)) < 128 THEN <<Ord(Head(s))>>
          ELSE <<192 + (Ord(Head(s)) \div 64), 128 + (Ord(Head(s)) % 64)>>)
         \o Utf8Encode(Tail(s))

RECURSIVE B64Encode(_)
\* base64.b64encode(bytes)
B64Encode(b) ==
    IF b = <<>> THEN <<>>
    ELSE IF Len(b) = 1
         THEN <<B64Alphabet[(b[1] \div 4) + 1], B64Alphabet[((b[1] % 4) * 16) + 1], "=", "=">>
    ELSE IF Len(b) = 2
         THEN <<B64Alphabet[(b[1] \div 4) + 1],
                B64Alphabet[((b[1] % 4) * 16) + (b[2] \div 16) + 1],
                B64Alphabet[((b[2] % 16) * 4) + 1], "=">>
    ELSE <<B64Alphabet[(b[1] \div 4) + 1],
           B64Alphabet[((b[1] % 4) * 16) + (b[2] \div 16) + 1],
           B64Alphabet[((b[2] % 16) * 4) + (b[3] \div 64) + 1],
           B64Alphabet[(b[3] % 64) + 1]>> \o B64Encode(SubSeq(b, 4, Len(b)))

EncodedCred(t) == B64Encode(Utf8Encode(t))

\* Payloads no decoder accepts: the byte 0xFF (no UTF-8), a character outside
\* ASCII, a lone data character.
UndecodablePayloads == { <<"/","w","=","=">>, <<EAcute>>, <<"d">> }

AuthPayloads ==
    { EncodedCred(t) : t \in CredTexts }
    \cup { SubSeq(EncodedCred(t), 1, Len(EncodedCred(t)) - 1) : t \in CredTexts \ {<<>>} }
    \cup { <<"!">> \o EncodedCred(t) : t \in {u \in CredTexts : Len(u) = 1} }
    \cup UndecodablePayloads
    \cup { <<"t","o","k"," ","e","n">> }

Schemes ==
    { <<"B","a","s","i","c">>, <<"b","A","S","I","C">>, <<"B","e","a","r","e","r">>,
      <<"D","I","G","E","S","T">>, <<"T","o","k","e","n">> }

AuthValues ==
    { s \o sep \o pl : s \in Schemes, sep \in {SP, <<" ", " ">>, <<"\t">>}, pl \in AuthPayloads }
    \cup Schemes
    \cup { <<>>, SP }

\* The Request is fresh, or has headers that carry an Authorization value.
InitAuth ==
    /\ method = None /\ path = None /\ version = Unset
    /\ cookies = NoDict /\ body = None
    /\ routes = <<>> /\ hook = None /\ auth = Unset
    /\ pc = "new" /\ call = "" /\ exc = "" /\ ret = <<>>
    /\ request = <<>>
    /\ arg \in AuthValues
    /\ headers \in { NoDict,
                     << <<AuthorizationKey, BearerTag \o SP \o <<"t","o","k">>>> >> }
    /\ ProxyIdle
    /\ RestIdle

NextAuth == CallPrepareAuth /\ UNCHANGED <<proxyVars, restVars>>

SpecAuth == InitAuth /\ [][NextAuth]_vars

\* The scheme of an Authorization value, by its case-insensitive prefix.
SchemeOf(value) ==
    LET h == Strip(value)
        Is(tag) == Len(h) > Len(tag) /\ Lower(SubSeq(h, 1, Len(tag) + 1)) = tag \o SP
    IN  CASE Is(BasicTag) -> "basic"
          [] Is(BearerTag) -> "bearer"
          [] Is(DigestTag) -> "digest"
          [] OTHER -> "unknown"

\* What follows the scheme word and the whitespace after it.
PayloadOf(value, tag) ==
    LET h == Strip(value) IN LStrip(SubSeq(h, Len(tag) + 1, Len(h)))

\* The base64 data characters of a text, in order.
DataChars(s) == SelectSeq(s, LAMBDA c : IsB64Char(c))

IsPrefix(a, b) == Len(a) <= Len(b) /\ SubSeq(b, 1, Len(a)) = a

HasColon(t) == \E i \in 1..Len(t) : t[i] = ":"

FirstColonOf(t) == CHOOSE i \in 1..Len(t) : t[i] = ":" /\ \A j \in 1..(i - 1) : t[j] # ":"

\* C6: prepare_auth classifies every non-empty Authorization value into exactly
\* one of basic, bearer, digest or unknown by its case-insensitive scheme
\* prefix; for Basic it stores the (user, pass) pair decoded from base64
\* "user:pass", and for a Basic value that fails to decode (invalid base64,
\* invalid UTF-8, no ':') it stores ("basic", None) and does not raise.
C6_AuthClassification ==
    (call = "prepare_auth" /\ arg # <<>>) =>
        /\ pc = "returned"
        /\ SchemeOf(arg) = "bearer" => auth = <<BearerTag, PayloadOf(arg, BearerTag)>>
        /\ SchemeOf(arg) = "digest" => auth = <<DigestTag, Strip(arg)>>
        /\ SchemeOf(arg) = "unknown" => auth = <<UnknownTag, None>>
        /\ SchemeOf(arg) = "basic" =>
               LET pl == PayloadOf(arg, BasicTag)
               IN  /\ \A t \in CredTexts :
                          pl = EncodedCred(t) =>
                              auth = IF HasColon(t)
                                     THEN <<SubSeq(t, 1, FirstColonOf(t) - 1),
                                            SubSeq(t, FirstColonOf(t) + 1, Len(t))>>
                                     ELSE <<BasicTag, None>>
                   /\ pl \in UndecodablePayloads => auth = <<BasicTag, None>>
                   /\ \/ auth = <<BasicTag, None>>
                      \/ /\ auth[2] # None
                         /\ IsPrefix(DataChars(EncodedCred(auth[1] \o <<":">> \o auth[2])),
                                     DataChars(pl))

\* A Basic value whose password holds a ':' was decoded, under a scheme
\* spelled in another case.
C6_Witness ==
    /\ call = "prepare_auth" /\ pc = "returned"
    /\ arg = <<"b","A","S","I","C"," ">> \o EncodedCred(<<"u", ":", ":">>)
    /\ auth = << <<"u">>, <<":">> >>

\* A Basic value that does not decode was given the sentinel.
C6_WitnessSentinel ==
    /\ call = "prepare_auth" /\ pc = "returned"
    /\ SchemeOf(arg) = "basic" /\ PayloadOf(arg, BasicTag) \in UndecodablePayloads
    /\ auth = <<BasicTag, None>>

(***************************************************************************)
(* start_proxy.parse_virtual_hosts                                         *)
(***************************************************************************)
\* The first place from i on whose character is not in S (Len(t) + 1 if none).
SkipIn(t, i, S) ==
    LET stops == {j \in i..Len(t) : t[j] \notin S}
    IN  IF stops = {} THEN IF i > Len(t) THEN i ELSE Len(t) + 1
        ELSE CHOOSE j \in stops : \A k \in stops : j <= k

\* The first place from i on whose character is in S (Len(t) + 1 if none).
SkipNotIn(t, i, S) ==
    LET stops == {j \in i..Len(t) : t[j] \in S}
    IN  IF stops = {} THEN IF i > Len(t) THEN i ELSE Len(t) + 1
        ELSE CHOOSE j \in stops : \A k \in stops : j <= k

\* \w
WordChars ==
    {UpperCase[i] : i \in DOMAIN UpperCase} \cup {LowerCase[i] : i \in DOMAIN LowerCase}
    \cup {Digits[i] : i \in DOMAIN Digits} \cup {"_", EAcute}

RECURSIVE Replace(_, _, _)
\* t.replace(old, new)
Replace(t, old, new) ==
    LET i == Find(t, old)
    IN  IF i = 0 THEN t
        ELSE SubSeq(t, 1, i - 1) \o new \o Replace(SubSeq(t, i + Len(old), Len(t)), old, new)

HostWord == <<"h","o","s","t">>
ProxyPassWord == <<"p","r","o","x","y","_","p","a","s","s">>
HttpScheme == <<"h","t","t","p",":","/","/">>
DistPolicyWord == <<"d","i","s","t","_","p","o","l","i","c","y">>
DollarHost == <<"$","H","O","S","T">>
BracesHost == <<"{","{","H","O","S","T","}","}">>
\* 'round-robin', the default of the else branch
RoundRobin == <<"r","o","u","n","d","-","r","o","b","i","n">>

\* A match of r'host\s+"([^"]+)"\s*\{(.*?)\}' (DOTALL) starting at i:
\* <<host, block, the place after the match>>, or <<>> when there is none.
MatchHostAt(t, i) ==
    LET a == i + Len(HostWord)
        b == SkipIn(t, a, Whitespace)
        c == SkipNotIn(t, b + 1, {Quote})
        d == SkipIn(t, c + 1, Whitespace)
        e == SkipNotIn(t, d + 1, {"}"})
    IN  IF /\ OccursAt(t, HostWord, i)
           /\ b > a /\ b <= Len(t) /\ t[b] = Quote
           /\ c > b + 1 /\ c <= Len(t)
           /\ d <= Len(t) /\ t[d] = "{"
           /\ e <= Len(t)
        THEN <<SubSeq(t, b + 1, c - 1), SubSeq(t, d + 1, e - 1), e + 1>>
        ELSE <<>>

RECURSIVE FindAllHosts(_, _)
\* re.findall(pattern, config_text, re.DOTALL): the (host, block) pairs
FindAllHosts(t, i) ==
    LET starts == {j \in i..Len(t) : MatchHostAt(t, j) # <<>>}
    IN  IF starts = {} THEN <<>>
        ELSE LET m == MatchHostAt(t, CHOOSE j \in starts : \A k \in starts : j <= k)
             IN  << <<m[1], m[2]>> >> \o FindAllHosts(t, m[3])

\* A match of r'proxy_pass\s+http://([^\s;]+);' starting at i:
\* <<origin, the place after the match>>, or <<>>.
MatchProxyPassAt(t, i) ==
    LET a == i + Len(ProxyPassWord)
        b == SkipIn(t, a, Whitespace)
        c == b + Len(HttpScheme)
        d == SkipNotIn(t, c, Whitespace \cup {";"})
    IN  IF /\ OccursAt(t, ProxyPassWord, i)
           /\ b > a /\ OccursAt(t, HttpScheme, b)
           /\ d > c /\ d <= Len(t) /\ t[d] = ";"
        THEN <<SubSeq(t, c, d - 1), d + 1>>
        ELSE <<>>

RECURSIVE FindAllProxyPass(_, _)
\* re.findall(r'proxy_pass\s+http://([^\s;]+);', block)
FindAllProxyPass(t, i) ==
    LET starts == {j \in i..Len(t) : MatchProxyPassAt(t, j) # <<>>}
    IN  IF starts = {} THEN <<>>
        ELSE LET m == MatchProxyPassAt(t, CHOOSE j \in starts : \A k \in starts : j <= k)
             IN  <<m[1]>> \o FindAllProxyPass(t, m[2])

\* A match of r'dist_policy\s+(-\w+)' starting at i: group 1, or <<>>.
MatchPolicyAt(t, i) ==
    LET a == i + Len(DistPolicyWord)
        b == SkipIn(t, a, Whitespace)
        c == SkipIn(t, b + 1, WordChars)
    IN  IF /\ OccursAt(t, DistPolicyWord, i)
           /\ b > a /\ b <= Len(t) /\ t[b] = "-"
           /\ c > b + 1
        THEN SubSeq(t, b, c - 1)
        ELSE <<>>

\* "policy_match.group(1)" of re.search, or 'round-robin' when nothing matches
DistPolicy(block) ==
    IF \E i \in 1..Len(block) : MatchPolicyAt(block, i) # <<>>
    THEN MatchPolicyAt(block, CHOOSE i \in 1..Len(block) :
                                  /\ MatchPolicyAt(block, i) # <<>>
                                  /\ \A j \in 1..(i - 1) : MatchPolicyAt(block, j) = <<>>)
    ELSE RoundRobin

\* The origins stay a list even when there is exactly one.
HostEntryAlwaysList(block) ==
    << <<"list", FindAllProxyPass(block, 1)>>, DistPolicy(block) >>

RECURSIVE Reversed(_)
Reversed(l) == IF l = <<>> THEN <<>> ELSE Append(Reversed(Tail(l)), Head(l))

\* Each origin is put in front of the ones found before it.
HostEntryReversed(block) ==
    LET proxyList == Reversed(FindAllProxyPass(block, 1))
    IN  IF Len(proxyList) = 1
        THEN << <<"str", proxyList[1]>>, DistPolicy(block) >>
        ELSE << <<"list", proxyList>>, DistPolicy(block) >>

\* The entry of one block: (the only origin, policy) when there is exactly one
\* origin, (the list of origins, policy) otherwise.  A str is <<"str", s>>, a
\* list <<"list", l>>.
HostEntry(block) ==
    LET proxyList == FindAllProxyPass(block, 1)
    IN  IF Len(proxyList) = 1
        THEN << <<"str", proxyList[1]>>, DistPolicy(block) >>
        ELSE << <<"list", proxyList>>, DistPolicy(block) >>

RECURSIVE RoutesLoopKeepFirst(_, _)
\* routes.setdefault(host, ...): the first block of a hostname stays.
RoutesLoopKeepFirst(rs, blocks) ==
    IF blocks = <<>> THEN rs
    ELSE RoutesLoopKeepFirst(
             IF DictHas(rs, Head(blocks)[1]) THEN rs
             ELSE DictSet(rs, Head(blocks)[1], HostEntry(Head(blocks)[2])),
             Tail(blocks))

RECURSIVE RoutesLoop(_, _)
\* "for host, block in host_blocks: ... routes[host] = ..."
RoutesLoop(rs, blocks) ==
    IF blocks = <<>> THEN rs
    ELSE RoutesLoop(DictSet(rs, Head(blocks)[1], HostEntry(Head(blocks)[2])), Tail(blocks))

\* The placeholders replaced when host_ip is given.
Substituted(text, ip) ==
    IF ip = None \/ ip = <<>> THEN text
    ELSE Replace(Replace(text, DollarHost, ip), BracesHost, ip)

\* parse_virtual_hosts(config_file, host_ip) on a file holding text
ParseVirtualHosts(text, ip) == RoutesLoop(<<>>, FindAllHosts(Substituted(text, ip), 1))

(***************************************************************************)
(* start_proxy.main: the configuration is parsed once, before serving.     *)
(***************************************************************************)
\* "routes = parse_virtual_hosts(args.config, replace_ip)"
LoadConfig ==
    /\ proxyPc = "start"
    /\ proxyRoutes' = ParseVirtualHosts(configText, hostIp)
    /\ proxyPc' = "serving"
    /\ UNCHANGED <<configText, hostIp, selVars>>

(***************************************************************************)
(* The configuration files the proxy is started on.                        *)
(***************************************************************************)
\* The most proxy_pass lines of a host block.
MaxOrigins == 3

OriginA == <<"1","0",".","0",".","0",".","1",":","8","0">>
OriginB == <<"1","0",".","0",".","0",".","2",":","8","0">>
OriginH == <<"$","H","O","S","T",":","9","0">>
Origins == {OriginA, OriginB, OriginH}

HostA == <<"a",".","c","o","m">>
HostB == <<"b",".","c","o","m">>
HostNames == {HostA, HostB}

HostAddress == <<"1","0",".","0",".","0",".","9">>

RoundRobinDirective == <<" ","d","i","s","t","_","p","o","l","i","c","y"," ","-","r","o","u","n","d","-","r","o","b","i","n",";">>

UndashedDirective == <<" ","d","i","s","t","_","p","o","l","i","c","y"," ","r","a","n","d","o","m",";">>
BogusDirective == <<" ","d","i","s","t","_","p","o","l","i","c","y"," ","-","b","o","g","u","s",";">>

\* The dist_policy line of a block: none, the documented token, other
\* dashed tokens, a token without a dash.
PolicyDirectives ==
    { <<>>,
      RoundRobinDirective,
      BogusDirective,
      <<" ","d","i","s","t","_","p","o","l","i","c","y"," ","-","l","e","a","s","t","_","c","o","n","n",";">>,
      UndashedDirective }

RECURSIVE ProxyPassLines(_)
ProxyPassLines(os) ==
    IF os = <<>> THEN <<>>
    ELSE SP \o ProxyPassWord \o SP \o HttpScheme \o Head(os) \o <<";">>
         \o ProxyPassLines(Tail(os))

\* host "<h>" { proxy_pass http://<o>; ... dist_policy <token>; }
BlockText(h, os, directive) ==
    HostWord \o SP \o <<Quote>> \o h \o <<Quote>> \o SP \o <<"{">>
    \o ProxyPassLines(os) \o directive \o SP \o <<"}", "\n">>

OriginLists == UNION {[1..k -> Origins] : k \in 0..MaxOrigins}

\* The example of the spec: a.com with two origins and -round-robin.
ExampleConfig == BlockText(HostA, <<OriginA, OriginB>>, RoundRobinDirective)

\* Every single block, and every pair of blocks of at most one origin each.
Configs ==
    { BlockText(h, os, d) : h \in HostNames, os \in OriginLists, d \in PolicyDirectives }
    \cup
    { BlockText(h1, os1, d1) \o BlockText(h2, os2, d2) :
        h1 \in HostNames, h2 \in HostNames,
        os1 \in {l \in OriginLists : Len(l) <= 1}, os2 \in {l \in OriginLists : Len(l) <= 1},
        d1 \in PolicyDirectives, d2 \in PolicyDirectives }

InitConfig ==
    /\ RequestIdle
    /\ configText \in Configs
    /\ hostIp \in {None, HostAddress}
    /\ proxyRoutes = NoDict
    /\ proxyPc = "start"
    /\ SelectorIdle
    /\ RestIdle

NextConfig == LoadConfig /\ UNCHANGED <<reqVars, restVars>>

SpecConfig == InitConfig /\ [][NextConfig]_vars

\* The policy of a block that has no dist_policy line.
DefaultPolicy == DistPolicy(<<>>)

\* C10: a host block that contains "dist_policy -round-robin;" gets the
\* round-robin policy, the same value a block without a dist_policy line gets;
\* the example block for "a.com" parses to the backends ["10.0.0.1:80",
\* "10.0.0.2:80"] with policy round-robin.
C10_RoundRobinDirective ==
    proxyPc = "serving" =>
        /\ \A h \in HostNames, os \in OriginLists :
               configText = BlockText(h, os, RoundRobinDirective) =>
                   /\ DictHas(proxyRoutes, h)
                   /\ DictGet(proxyRoutes, h, <<>>)[2] = RoundRobin
                   /\ DictGet(proxyRoutes, h, <<>>)[2] = DefaultPolicy
        /\ configText = ExampleConfig =>
               proxyRoutes = << <<HostA, << <<"list", <<OriginA, OriginB>>>>, RoundRobin >> >> >>

\* What the code does keep of C10: the example's backends, in order.
ExampleBackends ==
    (proxyPc = "serving" /\ configText = ExampleConfig) =>
        /\ DictHas(proxyRoutes, HostA)
        /\ DictGet(proxyRoutes, HostA, <<>>)[1] = <<"list", <<OriginA, OriginB>>>>

\* An origin as the parser reads it: $HOST stands for the --host address
\* when one is given.
AsRead(o) == IF hostIp # None /\ o = OriginH THEN HostAddress \o <<":","9","0">> ELSE o

\* The backends b of an entry are the ones of a block written with origins os.
EntryFor(b, os) ==
    IF Len(os) = 1 THEN b[1] = "str" /\ b[2] = AsRead(os[1])
    ELSE b[1] = "list" /\ b[2] = [i \in 1..Len(os) |-> AsRead(os[i])]

ShortLists == {l \in OriginLists : Len(l) <= 1}

\* C11: every host block yields an entry holding all of its proxy_pass
\* origins in document order, duplicates kept: the single origin string when
\* there is exactly one, the ordered list when there are two or more, and the
\* empty list when there is none.
C11_OriginsInOrder ==
    proxyPc = "serving" =>
        /\ \A h \in HostNames, os \in OriginLists, d \in PolicyDirectives :
               configText = BlockText(h, os, d) =>
                   /\ DictHas(proxyRoutes, h)
                   /\ EntryFor(DictGet(proxyRoutes, h, <<>>)[1], os)
        /\ \A os1 \in ShortLists, os2 \in ShortLists,
              d1 \in PolicyDirectives, d2 \in PolicyDirectives :
               configText = BlockText(HostA, os1, d1) \o BlockText(HostB, os2, d2) =>
                   /\ DictKeys(proxyRoutes) = {HostA, HostB}
                   /\ EntryFor(DictGet(proxyRoutes, HostA, <<>>)[1], os1)
                   /\ EntryFor(DictGet(proxyRoutes, HostB, <<>>)[1], os2)

\* A block with a duplicated origin kept both, in order.
C11_Witness ==
    /\ proxyPc = "serving"
    /\ configText = BlockText(HostA, <<OriginB, OriginA, OriginB>>, <<>>)
    /\ DictGet(proxyRoutes, HostA, <<>>)[1] = <<"list", <<OriginB, OriginA, OriginB>>>>

\* A block with one origin maps to the string, a block with none to [].
C11_WitnessSingleAndNone ==
    /\ proxyPc = "serving"
    /\ configText = BlockText(HostA, <<OriginA>>, <<>>) \o BlockText(HostB, <<>>, <<>>)
    /\ DictGet(proxyRoutes, HostA, <<>>)[1] = <<"str", OriginA>>
    /\ DictGet(proxyRoutes, HostB, <<>>)[1] = <<"list", <<>>>>

\* C12: when a hostname appears in several host blocks, its entry is what
\* the last of them alone produces, origins and policy; nothing of the
\* earlier blocks is merged in.
C12_LastBlockWins ==
    proxyPc = "serving" =>
        \A h \in HostNames, os1 \in ShortLists, os2 \in ShortLists,
           d1 \in PolicyDirectives, d2 \in PolicyDirectives :
            configText = BlockText(h, os1, d1) \o BlockText(h, os2, d2) =>
                /\ proxyRoutes = ParseVirtualHosts(BlockText(h, os2, d2), hostIp)
                /\ DictKeys(proxyRoutes) = {h}
                /\ EntryFor(DictGet(proxyRoutes, h, <<>>)[1], os2)

\* a.com was declared with one origin and a policy, then again with another
\* origin and no policy: only the second declaration is in the registry.
C12_Witness ==
    /\ proxyPc = "serving"
    /\ configText = BlockText(HostA, <<OriginA>>, BogusDirective)
                    \o BlockText(HostA, <<OriginB>>, <<>>)
    /\ proxyRoutes = << <<HostA, << <<"str", OriginB>>, RoundRobin >> >> >>

\* C13: a host block whose dist_policy token is absent or is not a
\* recognized policy token is recorded with the round-robin policy.
C13_UnrecognizedIsRoundRobin ==
    proxyPc = "serving" =>
        \A h \in HostNames, os \in OriginLists,
           d \in {<<>>, UndashedDirective, BogusDirective} :
            configText = BlockText(h, os, d) =>
                DictGet(proxyRoutes, h, <<>>)[2] = RoundRobin

\* What the code does keep of C13: no dist_policy line, or a token without a
\* leading dash, gives round-robin.
AbsentOrUndashedIsRoundRobin ==
    proxyPc = "serving" =>
        \A h \in HostNames, os \in OriginLists, d \in {<<>>, UndashedDirective} :
            configText = BlockText(h, os, d) =>
                DictGet(proxyRoutes, h, <<>>)[2] = RoundRobin

(***************************************************************************)
(* The proxy's backend selector (daemon.proxy): one rotation cursor per    *)
(* virtual host; a selection reads the cursor, picks backends[cursor mod   *)
(* N] and advances the cursor, inside the host's lock.                     *)
(***************************************************************************)
\* A registry entry that is one text is taken apart into its characters.
BackendsOfText(entry) ==
    IF entry[1][1] = "str" THEN [i \in 1..Len(entry[1][2]) |-> <<entry[1][2][i]>>]
    ELSE entry[1][2]

\* The ordered backends of a registry entry.
Backends(entry) == IF entry[1][1] = "str" THEN <<entry[1][2]>> ELSE entry[1][2]

\* backends[cursor mod N]
Pick(backends, c) == backends[(c % Len(backends)) + 1]

\* The lock is taken whether or not another worker holds it.
LockFreeAlways(l, h) == TRUE

\* No worker holds the lock of host h.
LockFree(l, h) == DictGet(l, h, 0) = 0

\* The most selections of one run.
MaxSelections == 4

InFlight == {t \in Workers : workers[t].pc # "idle"}

\* A connection thread takes a request whose Host header names a virtual
\* host that has backends.
Accept(t, h) ==
    /\ proxyPc = "serving"
    /\ workers[t].pc = "idle"
    /\ Len(selections) + Cardinality(InFlight) < MaxSelections
    /\ DictHas(proxyRoutes, h)
    /\ Backends(DictGet(proxyRoutes, h, <<>>)) # <<>>
    /\ workers' = [workers EXCEPT ![t] = [pc |-> "acquire", host |-> h, seen |-> 0]]
    /\ UNCHANGED <<cursor, lock, selections>>

\* with lock:
Acquire(t) ==
    /\ workers[t].pc = "acquire"
    /\ LockFree(lock, workers[t].host)
    /\ lock' = DictSet(lock, workers[t].host, t)
    /\ workers' = [workers EXCEPT ![t].pc = "read"]
    /\ UNCHANGED <<cursor, selections>>

\* the cursor is read
ReadCursor(t) ==
    /\ workers[t].pc = "read"
    /\ workers' = [workers EXCEPT ![t].pc = "advance",
                                  ![t].seen = DictGet(cursor, workers[t].host, 0)]
    /\ UNCHANGED <<cursor, lock, selections>>

\* the backend is picked and the cursor advanced
Advance(t) ==
    /\ workers[t].pc = "advance"
    /\ LET h == workers[t].host
           c == workers[t].seen
       IN  /\ cursor' = DictSet(cursor, h, c + 1)
           /\ selections' = Append(selections,
                  <<h, c, Pick(Backends(DictGet(proxyRoutes, h, <<>>)), c)>>)
    /\ workers' = [workers EXCEPT ![t].pc = "release"]
    /\ UNCHANGED lock

\* the lock is released
Release(t) ==
    /\ workers[t].pc = "release"
    /\ lock' = DictSet(lock, workers[t].host, 0)
    /\ workers' = [workers EXCEPT ![t] = IdleWorker]
    /\ UNCHANGED <<cursor, selections>>

OriginC == <<"1","0",".","0",".","0",".","3",":","8","0">>

\* The orders the three origins of a.com are written in.
ThreeOrigins == { <<OriginA, OriginB, OriginC>>, <<OriginC, OriginA, OriginB>> }

\* a.com with three origins, b.com with two.
ProxyConfig(os, directive) ==
    BlockText(HostA, os, directive) \o BlockText(HostB, <<OriginB, OriginA>>, <<>>)

\* a.com with the single origin o, b.com with two.
SingleOriginConfig(o) ==
    BlockText(HostA, <<o>>, <<>>) \o BlockText(HostB, <<OriginB, OriginA>>, <<>>)

SingleOrigins == {OriginA, OriginC}

InitProxy ==
    /\ RequestIdle
    /\ \/ \E os \in ThreeOrigins, d \in {<<>>, RoundRobinDirective} :
              configText = ProxyConfig(os, d)
       \/ \E o \in SingleOrigins : configText = SingleOriginConfig(o)
    /\ hostIp = None
    /\ proxyRoutes = NoDict
    /\ proxyPc = "start"
    /\ SelectorIdle
    /\ RestIdle

NextProxy ==
    /\ \/ LoadConfig
       \/ /\ \/ \E t \in Workers, h \in HostNames : Accept(t, h)
             \/ \E t \in Workers : Acquire(t)
             \/ \E t \in Workers : ReadCursor(t)
             \/ \E t \in Workers : Advance(t)
             \/ \E t \in Workers : Release(t)
          /\ UNCHANGED <<configText, hostIp, proxyRoutes, proxyPc>>
    /\ UNCHANGED <<reqVars, restVars>>

SpecProxy == InitProxy /\ [][NextProxy]_vars

\* The selections made for host h, in order.
SelectionsOf(h) == SelectSeq(selections, LAMBDA e : e[1] = h)

\* How many of the selections for host h went to backend b.
CountOf(h, b) == Len(SelectSeq(selections, LAMBDA e : e[1] = h /\ e[3] = b))

\* C8: for a virtual host configured with the ordered backends [A, B, C] and
\* a cursor that starts at 0, the selections return A, B, C, A, B, C, ...:
\* the k-th selection (k from 0) returns backends[k mod 3], and every
\* selection advances that host's cursor by exactly one.
C8_RoundRobinOrder ==
    \A os \in ThreeOrigins, d \in {<<>>, RoundRobinDirective} :
        configText = ProxyConfig(os, d) =>
            LET sel == SelectionsOf(HostA)
            IN  /\ \A k \in 1..Len(sel) : sel[k][3] = os[((k - 1) % 3) + 1]
                /\ DictGet(cursor, HostA, 0) = Len(sel)

\* Four selections for a.com went A, B, C and back to A.
C8_Witness ==
    /\ configText = ProxyConfig(<<OriginA, OriginB, OriginC>>, RoundRobinDirective)
    /\ Len(SelectionsOf(HostA)) = 4
    /\ [k \in 1..4 |-> SelectionsOf(HostA)[k][3]] = <<OriginA, OriginB, OriginC, OriginA>>
    /\ DictGet(cursor, HostA, 0) = 4

InCriticalSection(t) == workers[t].pc \in {"read", "advance", "release"}

\* C9: for any interleaving of concurrent selections on the same virtual
\* host the read-compute-advance of its cursor is one atomic step: no two
\* workers are inside it for the same host, no two selections observe the same
\* cursor value and no cursor value is skipped; over the three backends of
\* a.com each backend's count is within 1 of N/3 after N selections.
C9_AtomicSelection ==
    /\ \A t1 \in Workers, t2 \in Workers :
           (t1 # t2 /\ InCriticalSection(t1) /\ InCriticalSection(t2))
               => workers[t1].host # workers[t2].host
    /\ \A h \in HostNames :
           LET sel == SelectionsOf(h)
           IN  \A k \in 1..Len(sel) : sel[k][2] = k - 1
    /\ (\E os \in ThreeOrigins, d \in {<<>>, RoundRobinDirective} :
            configText = ProxyConfig(os, d)) =>
           LET n == Len(SelectionsOf(HostA))
           IN  \A b \in {OriginA, OriginB, OriginC} :
                   /\ 3 * CountOf(HostA, b) - n <= 3
                   /\ n - 3 * CountOf(HostA, b) <= 3

\* A worker waits for the lock of a.com while another, inside it, has read the
\* cursor left by two earlier selections that went to two different backends.
C9_Witness ==
    /\ \E t1 \in Workers, t2 \in Workers :
           /\ workers[t1].pc = "acquire" /\ workers[t1].host = HostA
           /\ workers[t2].pc = "advance" /\ workers[t2].host = HostA
           /\ workers[t2].seen = 2
    /\ Len(SelectionsOf(HostA)) = 2
    /\ SelectionsOf(HostA)[1][3] # SelectionsOf(HostA)[2][3]

(***************************************************************************)
(* Python values a handler returns: None, bool, int, str, list, dict.      *)
(* A value is <<tag, payload>>; a dict is a sequence of <<key, value>>     *)
(* pairs whose keys are texts.                                             *)
(***************************************************************************)
PyBool(b) == <<"bool", b>>
PyInt(n) == <<"int", n>>
PyStr(s) == <<"str", s>>
PyList(l) == <<"list", l>>
PyDict(d) == <<"dict", d>>

\* bool(v)
Truthy(v) ==
    CASE v[1] = "none" -> FALSE
      [] v[1] = "bool" -> v[2]
      [] v[1] = "int" -> v[2] # 0
      [] OTHER -> v[2] # <<>>

\* a == b for values of any two types (True == 1 aside)
PyEq(a, b) == a[1] = b[1] /\ (a[1] = "none" \/ a[2] = b[2])

\* The characters json.dumps writes for one character of a str.
JsonChar(c) ==
    IF c = Quote THEN <<"<backslash>", Quote>>
    ELSE IF c = "<backslash>" THEN <<"<backslash>", "<backslash>">>
    ELSE IF c = EAcute THEN <<"<backslash>", "u", "0", "0", "e", "9">>
    ELSE <<c>>

RECURSIVE JsonText(_)
JsonText(s) ==
    IF s = <<>> THEN <<>>
    ELSE IF Len(s) = 1 THEN JsonChar(s[1])
    ELSE JsonText(SubSeq(s, 1, Len(s) \div 2))
         \o JsonText(SubSeq(s, (Len(s) \div 2) + 1, Len(s)))

RECURSIVE JsonDumps(_)
\* json.dumps(v)
JsonDumps(v) ==
    CASE v[1] = "none" -> <<"n","u","l","l">>
      [] v[1] = "bool" -> IF v[2] THEN <<"t","r","u","e">> ELSE <<"f","a","l","s","e">>
      [] v[1] = "int" -> IntToStr(v[2])
      [] v[1] = "str" -> <<Quote>> \o JsonText(v[2]) \o <<Quote>>
      [] v[1] = "list" ->
            <<"[">> \o Join(<<",", " ">>, [i \in 1..Len(v[2]) |-> JsonDumps(v[2][i])]) \o <<"]">>
      [] OTHER ->
            <<"{">> \o Join(<<",", " ">>,
                           [i \in 1..Len(v[2]) |->
                               <<Quote>> \o JsonText(v[2][i][1]) \o <<Quote, ":", " ">>
                               \o JsonDumps(v[2][i][2])])
            \o <<"}">>

(***************************************************************************)
(* Response.get_mime_type                                                  *)
(***************************************************************************)
TextHtml == <<"t","e","x","t","/","h","t","m","l">>
TextCss == <<"t","e","x","t","/","c","s","s">>
ImagePng == <<"i","m","a","g","e","/","p","n","g">>
ImageJpeg == <<"i","m","a","g","e","/","j","p","e","g">>
ImageGif == <<"i","m","a","g","e","/","g","i","f">>
ImageXIcon == <<"i","m","a","g","e","/","x","-","i","c","o","n">>
OctetStream == <<"a","p","p","l","i","c","a","t","i","o","n","/","o","c","t","e","t","-","s","t","r","e","a","m">>

\* mimetypes.types_map, the extensions in use
TypesMap ==
    << <<<<".","h","t","m","l">>, TextHtml>>, <<<<".","h","t","m">>, TextHtml>>, <<<<".","c","s","s">>, TextCss>>,
       <<<<".","p","n","g">>, ImagePng>>, <<<<".","j","p","g">>, ImageJpeg>>, <<<<".","g","i","f">>, ImageGif>>,
       <<<<".","i","c","o">>, <<"i","m","a","g","e","/","v","n","d",".","m","i","c","r","o","s","o","f","t",".","i","c","o","n">>>>, <<<<".","t","x","t">>, <<"t","e","x","t","/","p","l","a","i","n">>>>,
       <<<<".","j","s">>, <<"t","e","x","t","/","j","a","v","a","s","c","r","i","p","t">>>>, <<<<".","c","s","v">>, <<"t","e","x","t","/","c","s","v">>>>,
       <<<<".","x","m","l">>, <<"a","p","p","l","i","c","a","t","i","o","n","/","x","m","l">>>>, <<<<".","j","s","o","n">>, <<"a","p","p","l","i","c","a","t","i","o","n","/","j","s","o","n">>>>,
       <<<<".","m","p","4">>, <<"v","i","d","e","o","/","m","p","4">>>>, <<<<".","m","p","3">>, <<"a","u","d","i","o","/","m","p","e","g">>>> >>

\* s.endswith(suffix)
EndsWith(s, suffix) ==
    Len(suffix) <= Len(s) /\ SubSeq(s, Len(s) - Len(suffix) + 1, Len(s)) = suffix

\* The last component of a path.
BaseName(p) ==
    LET slashes == {i \in 1..Len(p) : p[i] = "/"}
    IN  IF slashes = {} THEN p
        ELSE SubSeq(p, (CHOOSE i \in slashes : \A j \in slashes : j <= i) + 1, Len(p))

\* posixpath.splitext(p)[1]: from the last dot of the last component, unless
\* that dot only follows leading dots.
Extension(p) ==
    LET b == BaseName(p)
        dots == {i \in 1..Len(b) : b[i] = "." /\ \E j \in 1..(i - 1) : b[j] # "."}
    IN  IF dots = {} THEN <<>>
        ELSE SubSeq(b, CHOOSE i \in dots : \A j \in dots : j <= i, Len(b))

\* mimetypes.guess_type(path)[0]; None when the extension is not known
GuessType(p) == DictGet(TypesMap, Lower(Extension(p)), None)

\* get_mime_type(path)
GetMimeType(p) ==
    LET guess == GuessType(p)
        mime  == IF guess = None
                    /\ (EndsWith(p, <<".","h","t","m","l">>) \/ p = Slash \/ p = IndexHtml \/ p = LoginPath)
                 THEN TextHtml ELSE guess
    IN  IF mime = None THEN OctetStream ELSE mime

(***************************************************************************)
(* Response.prepare_content_type                                           *)
(***************************************************************************)
ContentTypeKey == <<"C","o","n","t","e","n","t","-","T","y","p","e">>

\* prepare_content_type(mime_type) on Response.headers hs: the base directory,
\* the headers afterwards and the exception raised ("" when none).
PrepareContentType(hs, mime) ==
    LET parts == SplitOnce(mime, Slash)
        main  == parts[1]
        sub   == parts[2]
        set   == DictSet(hs, ContentTypeKey, main \o Slash \o sub)
    IN  CASE main = <<"t","e","x","t">> ->
               IF sub = <<"p","l","a","i","n">> \/ sub = <<"c","s","s">>
               THEN [dir |-> <<"s","t","a","t","i","c","/">>, hdrs |-> set, exc |-> ""]
               ELSE IF sub = <<"h","t","m","l">> THEN [dir |-> <<"w","w","w","/">>, hdrs |-> set, exc |-> ""]
               ELSE IF sub = <<"c","s","v">> THEN [dir |-> <<"c","s","v","/">>, hdrs |-> set, exc |-> ""]
               ELSE IF sub = <<"x","m","l">> THEN [dir |-> <<"x","m","l","/">>, hdrs |-> set, exc |-> ""]
               ELSE [dir |-> <<>>, hdrs |-> set, exc |-> "ValueError"]
          [] main = <<"i","m","a","g","e">> -> [dir |-> <<"s","t","a","t","i","c","/">>, hdrs |-> set, exc |-> ""]
          [] main = <<"a","p","p","l","i","c","a","t","i","o","n">> -> [dir |-> <<"a","p","p","s","/">>, hdrs |-> set, exc |-> ""]
          [] main = <<"v","i","d","e","o">> -> [dir |-> <<"v","i","d","e","o","s","/">>, hdrs |-> set, exc |-> ""]
          [] OTHER -> [dir |-> <<>>, hdrs |-> hs, exc |-> "ValueError"]


(***************************************************************************)
(* Response.build_content and the canned builders                          *)
(***************************************************************************)
\* path.lstrip('/')
LStripSlash(p) == IF p # <<>> /\ Head(p) = "/" THEN SubSeq(p, SkipIn(p, 1, {"/"}), Len(p)) ELSE p

\* os.path.join(base_dir, path.lstrip('/')), base_dir ending in '/' or empty
FilePath(p, baseDir) == baseDir \o LStripSlash(p)

\* build_notfound_with_json(body)
BuildNotFoundWithJson(b) ==
    <<"H","T","T","P","/","1",".","1"," ","4","0","4"," ","N","o","t"," ","F","o","u","n","d","\r","\n","C","o","n","t","e","n","t","-","T","y","p","e",":"," ","a","p","p","l","i","c","a","t","i","o","n","/","j","s","o","n","\r","\n","C","o","n","t","e","n","t","-","L","e","n","g","t","h",":"," ">>
    \o IntToStr(ByteLength(b))
    \o <<"\r","\n","C","a","c","h","e","-","C","o","n","t","r","o","l",":"," ","n","o","-","c","a","c","h","e","\r","\n","C","o","n","n","e","c","t","i","o","n",":"," ","c","l","o","s","e","\r","\n","\r","\n">> \o b

\* build_unauthorized()
BuildUnauthorized ==
    <<"H","T","T","P","/","1",".","1"," ","4","0","1"," ","U","n","a","u","t","h","o","r","i","z","e","d","\r","\n","C","o","n","t","e","n","t","-","T","y","p","e",":"," ","t","e","x","t","/","h","t","m","l","\r","\n","C","o","n","t","e","n","t","-","L","e","n","g","t","h",":"," ","1","6","\r","\n","C","a","c","h","e","-","C","o","n","t","r","o","l",":"," ","m","a","x","-","a","g","e","=","8","6","0","0","0","\r","\n","C","o","n","n","e","c","t","i","o","n",":"," ","c","l","o","s","e","\r","\n","\r","\n","4","0","1"," ","U","n","a","u","t","h","o","r","i","z","e","d">>

\* build_redirect(location, has_cookie)
BuildRedirect(location, hasCookie) ==
    <<"H","T","T","P","/","1",".","1"," ","3","0","2"," ","F","o","u","n","d","\r","\n","L","o","c","a","t","i","o","n",":"," ">> \o location
    \o <<"\r","\n","C","o","n","t","e","n","t","-","T","y","p","e",":"," ","t","e","x","t","/","h","t","m","l","\r","\n","C","o","n","t","e","n","t","-","L","e","n","g","t","h",":"," ","1","3","\r","\n","C","a","c","h","e","-","C","o","n","t","r","o","l",":"," ","m","a","x","-","a","g","e","=","8","6","0","0","0","\r","\n">>
    \o (IF hasCookie THEN <<"S","e","t","-","C","o","o","k","i","e",":"," ","a","u","t","h","=","t","r","u","e","\r","\n">> ELSE <<>>)
    \o <<"C","o","n","n","e","c","t","i","o","n",":"," ","c","l","o","s","e","\r","\n","\r","\n">>
    \o <<"3","0","2"," ","F","o","u","n","d">>

\* build_internal_server_error()
BuildInternalServerError ==
    <<"H","T","T","P","/","1",".","1"," ","5","0","0"," ","I","n","t","e","r","n","a","l"," ","S","e","r","v","e","r"," ","E","r","r","o","r","\r","\n","C","o","n","t","e","n","t","-","T","y","p","e",":"," ","t","e","x","t","/","h","t","m","l","\r","\n","C","o","n","t","e","n","t","-","L","e","n","g","t","h",":"," ","2","5","\r","\n","C","a","c","h","e","-","C","o","n","t","r","o","l",":"," ","m","a","x","-","a","g","e","=","8","6","0","0","0","\r","\n","C","o","n","n","e","c","t","i","o","n",":"," ","c","l","o","s","e","\r","\n","\r","\n","5","0","0"," ","I","n","t","e","r","n","a","l"," ","S","e","r","v","e","r"," ","E","r","r","o","r">>

\* build_json_response(data), data a str
BuildJsonResponse(data) ==
    <<"H","T","T","P","/","1",".","1"," ","2","0","0"," ","O","K","\r","\n","C","o","n","t","e","n","t","-","T","y","p","e",":"," ","a","p","p","l","i","c","a","t","i","o","n","/","j","s","o","n","\r","\n","C","o","n","t","e","n","t","-","L","e","n","g","t","h",":"," ">>
    \o IntToStr(ByteLength(data))
    \o <<"\r","\n","C","a","c","h","e","-","C","o","n","t","r","o","l",":"," ","n","o","-","c","a","c","h","e","\r","\n","C","o","n","n","e","c","t","i","o","n",":"," ","c","l","o","s","e","\r","\n","\r","\n">> \o data

\* build_notfound()
BuildNotFound ==
    <<"H","T","T","P","/","1",".","1"," ","4","0","4"," ","N","o","t"," ","F","o","u","n","d","\r","\n","C","o","n","t","e","n","t","-","T","y","p","e",":"," ","t","e","x","t","/","p","l","a","i","n","\r","\n","C","o","n","t","e","n","t","-","L","e","n","g","t","h",":"," ","1","3","\r","\n","C","o","n","n","e","c","t","i","o","n",":"," ","c","l","o","s","e","\r","\n","\r","\n","4","0","4"," ","N","o","t"," ","F","o","u","n","d">>

(***************************************************************************)
(* Response.build_response_header                                          *)
(***************************************************************************)
\* datetime.utcnow().strftime(...): the clock's text, one opaque token
DateToken == "<date>"

\* The headers of a 200 response for request headers rq, Response.headers
\* rs and the loaded content c, in insertion order.
ResponseHeaderMap(rq, rs, c) ==
    << <<<<"A","c","c","e","p","t">>, DictGet(rq, <<"A","c","c","e","p","t">>, <<"a","p","p","l","i","c","a","t","i","o","n","/","j","s","o","n">>)>>,
       <<<<"A","c","c","e","p","t","-","L","a","n","g","u","a","g","e">>, DictGet(rq, <<"A","c","c","e","p","t","-","L","a","n","g","u","a","g","e">>, <<"e","n","-","U","S",",","e","n",";","q","=","0",".","9">>)>>,
       <<<<"A","u","t","h","o","r","i","z","a","t","i","o","n">>, DictGet(rq, <<"A","u","t","h","o","r","i","z","a","t","i","o","n">>, <<"B","a","s","i","c"," ","<","c","r","e","d","e","n","t","i","a","l","s",">">>)>>,
       <<<<"C","a","c","h","e","-","C","o","n","t","r","o","l">>, <<"n","o","-","c","a","c","h","e">>>>,
       <<ContentTypeKey, DictGet(rs, ContentTypeKey, <<>>)>>,
       <<<<"C","o","n","t","e","n","t","-","L","e","n","g","t","h">>, IntToStr(ByteLength(c))>>,
       <<<<"D","a","t","e">>, <<DateToken>> >>,
       <<<<"M","a","x","-","F","o","r","w","a","r","d">>, <<"1","0">>>>,
       <<<<"P","r","a","g","m","a">>, <<"n","o","-","c","a","c","h","e">>>>,
       <<<<"P","r","o","x","y","-","A","u","t","h","o","r","i","z","a","t","i","o","n">>, <<"B","a","s","i","c"," ","d","X","N","l","c","j","p","w","Y","X","N","z">>>>,
       <<<<"W","a","r","n","i","n","g">>, <<"1","9","9"," ","M","i","s","c","e","l","l","a","n","e","o","u","s"," ","w","a","r","n","i","n","g">>>>,
       <<<<"U","s","e","r","-","A","g","e","n","t">>, DictGet(rq, <<"U","s","e","r","-","A","g","e","n","t">>, <<"C","h","r","o","m","e","/","1","2","3",".","0",".","0",".","0">>)>> >>

RECURSIVE Overlay(_, _)
\* "for k, v in rsphdr.items(): headers[k] = v"
Overlay(hs, rs) ==
    IF rs = <<>> THEN hs ELSE Overlay(DictSet(hs, Head(rs)[1], Head(rs)[2]), Tail(rs))

RECURSIVE HeaderLinesText(_)
\* "{}: {}\r\n" for every header
HeaderLinesText(hs) ==
    IF hs = <<>> THEN <<>>
    ELSE Head(hs)[1] \o ColonSpace \o Head(hs)[2] \o CRLF \o HeaderLinesText(Tail(hs))

\* build_response_header(request)
BuildResponseHeader(rq, rs, c) ==
    <<"H","T","T","P","/","1",".","1"," ","2","0","0"," ","O","K","\r","\n">>
    \o HeaderLinesText(Overlay(ResponseHeaderMap(rq, rs, c), rs)) \o CRLF


(***************************************************************************)
(* Response.build_response                                                 *)
(***************************************************************************)
SetCookieKey == <<"s","e","t","_","c","o","o","k","i","e">>
ChosenPeerKey == <<"c","h","o","s","e","n","_","p","e","e","r">>
RedirectKey == <<"r","e","d","i","r","e","c","t">>
StatusKey == <<"s","t","a","t","u","s">>
MessageKey == <<"m","e","s","s","a","g","e">>
AuthTrue == <<"a","u","t","h","=","t","r","u","e">>
Success == <<"s","u","c","c","e","s","s">>
LoginHtml == <<"l","o","g","i","n",".","h","t","m","l">>
IndexHtmlFile == <<"i","n","d","e","x",".","h","t","m","l">>
FaviconIco == <<"f","a","v","i","c","o","n",".","i","c","o">>

\* What a call gave: pc is "returned" with the bytes, or "raised" with the
\* exception; opened lists the files open() was called on.
Returned(b, hs) ==
    [pc |-> "returned", exc |-> "", bytes |-> b, opened |-> <<>>, hdrs |-> hs, content |-> <<>>]

Raised(e, hs) ==
    [pc |-> "raised", exc |-> e, bytes |-> <<>>, opened |-> <<>>, hdrs |-> hs, content |-> <<>>]

\* "{}".format(v) / "%s" % v for None, bool, int and str
PyFormat(v) ==
    CASE v[1] = "none" -> <<"N","o","n","e">>
      [] v[1] = "bool" -> IF v[2] THEN <<"T","r","u","e">> ELSE <<"F","a","l","s","e">>
      [] v[1] = "int" -> IntToStr(v[2])
      [] v[1] = "str" -> v[2]

\* "key in v": "yes", "no", or "TypeError" for a value that is not iterable
KeyIn(key, v) ==
    CASE v[1] = "dict" -> IF DictHas(v[2], key) THEN "yes" ELSE "no"
      [] v[1] = "str" -> IF Contains(v[2], key) THEN "yes" ELSE "no"
      [] v[1] = "list" -> IF \E i \in 1..Len(v[2]) : PyEq(v[2][i], PyStr(key)) THEN "yes" ELSE "no"
      [] OTHER -> "TypeError"

\* v == True / v == False
IsTrue(v) == (v[1] = "bool" /\ v[2]) \/ (v[1] = "int" /\ v[2] = 1)
IsFalse(v) == (v[1] = "bool" /\ ~v[2]) \/ (v[1] = "int" /\ v[2] = 0)

\* The keys of api_routes
DumpsIfTruthy ==
    { <<<<"/","g","e","t","-","c","h","a","n","n","e","l","-","m","e","s","s","a","g","e","s">>, POST>>, <<<<"/","s","e","n","d","-","c","h","a","n","n","e","l","-","m","e","s","s","a","g","e">>, POST>>,
      <<<<"/","j","o","i","n","-","c","h","a","n","n","e","l">>, POST>> }
JoinedChannels == {<<<<"/","g","e","t","-","j","o","i","n","e","d","-","c","h","a","n","n","e","l","s">>, GET>>}
AllChannels == {<<<<"/","g","e","t","-","a","l","l","-","c","h","a","n","n","e","l","s">>, GET>>}
SuccessOrFailure == {<<<<"/","s","u","b","m","i","t","-","u","s","e","r","n","a","m","e">>, POST>>, <<<<"/","s","u","b","m","i","t","-","i","n","f","o">>, POST>>}
BroadcastPeer == {<<<<"/","b","r","o","a","d","c","a","s","t","-","p","e","e","r">>, POST>>}
EchoResult ==
    { <<<<"/","g","e","t","-","r","e","c","e","i","v","e","d","-","m","e","s","s","a","g","e","s">>, GET>>, <<<<"/","g","e","t","-","c","o","n","n","e","c","t","e","d","-","p","e","e","r","s">>, GET>>,
      <<<<"/","g","e","t","-","l","i","s","t">>, GET>> }
RegisterPeerPool == {<<<<"/","r","e","g","i","s","t","e","r","-","p","e","e","r","-","p","o","o","l">>, POST>>}
StatusMessage ==
    { <<<<"/","c","o","n","n","e","c","t","-","p","e","e","r">>, POST>>, <<<<"/","s","e","n","d","-","p","e","e","r">>, POST>>, <<<<"/","r","e","c","e","i","v","e","-","m","e","s","s","a","g","e">>, POST>> }

ApiKeys ==
    DumpsIfTruthy \cup JoinedChannels \cup AllChannels \cup SuccessOrFailure
    \cup BroadcastPeer \cup EchoResult \cup RegisterPeerPool \cup StatusMessage

\* "hook_result and hook_result.get('status') == 'success'": "yes", "no", or
\* "AttributeError" for a truthy value that has no get()
StatusIsSuccess(hr) ==
    IF ~Truthy(hr) THEN "no"
    ELSE IF hr[1] # "dict" THEN "AttributeError"
    ELSE IF DictHas(hr[2], StatusKey) /\ PyEq(DictGet(hr[2], StatusKey, PyNone), PyStr(Success))
    THEN "yes" ELSE "no"

\* '{"status": <status>, "message": "%s"}' % hook_result['message']
StatusMessageJson(status, hr) ==
    IF ~DictHas(hr[2], MessageKey) THEN Raised("KeyError", <<>>)
    ELSE Returned(BuildJsonResponse(
             <<"{",Quote,"s","t","a","t","u","s",Quote,":"," ",Quote>> \o status \o <<Quote,","," ",Quote,"m","e","s","s","a","g","e",Quote,":"," ",Quote>>
             \o PyFormat(DictGet(hr[2], MessageKey, PyNone)) \o <<Quote,"}">>), <<>>)

\* api_routes[api_key]()
ApiRule(key, hr) ==
    CASE key \in DumpsIfTruthy ->
            IF Truthy(hr) THEN Returned(BuildJsonResponse(JsonDumps(hr)), <<>>)
            ELSE Returned(BuildInternalServerError, <<>>)
      [] key \in JoinedChannels ->
            IF hr[1] # "none"
            THEN Returned(BuildJsonResponse(
                     <<"{"," ",Quote,"s","t","a","t","u","s",Quote,":"," ",Quote,"s","u","c","c","e","s","s",Quote,","," ",Quote,"c","h","a","n","n","e","l","s",Quote,":"," ">> \o JsonDumps(hr) \o <<" ","}">>), <<>>)
            ELSE Returned(BuildInternalServerError, <<>>)
      [] key \in AllChannels ->
            IF Truthy(hr)
            THEN Returned(BuildJsonResponse(
                     <<"{",Quote,"s","t","a","t","u","s",Quote,":"," ",Quote,"s","u","c","c","e","s","s",Quote,","," ",Quote,"c","h","a","n","n","e","l","s",Quote,":"," ">> \o JsonDumps(hr) \o <<"}">>), <<>>)
            ELSE Returned(BuildInternalServerError, <<>>)
      [] key \in SuccessOrFailure ->
            IF IsTrue(hr) THEN Returned(BuildJsonResponse(<<"{",Quote,"s","t","a","t","u","s",Quote,":"," ",Quote,"s","u","c","c","e","s","s",Quote,"}">>), <<>>)
            ELSE IF IsFalse(hr) THEN Returned(BuildJsonResponse(<<"{",Quote,"s","t","a","t","u","s",Quote,":"," ",Quote,"f","a","i","l","u","r","e",Quote,"}">>), <<>>)
            ELSE Returned(BuildInternalServerError, <<>>)
      [] key \in BroadcastPeer ->
            IF StatusIsSuccess(hr) = "AttributeError" THEN Raised("AttributeError", <<>>)
            ELSE IF StatusIsSuccess(hr) = "yes"
            THEN Returned(BuildJsonResponse(
                     <<"{",Quote,"s","t","a","t","u","s",Quote,":"," ",Quote,"s","u","c","c","e","s","s",Quote,","," ",Quote,"m","e","s","s","a","g","e",Quote,":"," ",Quote,"B","r","o","a","d","c","a","s","t"," ","s","e","n","t",Quote,"}">>), <<>>)
            ELSE Returned(BuildInternalServerError, <<>>)
      [] key \in EchoResult ->
            IF hr[1] = "str" THEN Returned(BuildJsonResponse(hr[2]), <<>>)
            ELSE Raised("AttributeError", <<>>)
      [] key \in RegisterPeerPool ->
            IF IsTrue(hr) THEN Returned(BuildJsonResponse(<<"{",Quote,"s","t","a","t","u","s",Quote,":"," ",Quote,"s","u","c","c","e","s","s",Quote,"}">>), <<>>)
            ELSE Returned(BuildInternalServerError, <<>>)
      [] key \in StatusMessage ->
            IF StatusIsSuccess(hr) = "AttributeError" THEN Raised("AttributeError", <<>>)
            ELSE IF StatusIsSuccess(hr) = "yes" THEN StatusMessageJson(Success, hr)
            ELSE IF Truthy(hr) THEN StatusMessageJson(<<"e","r","r","o","r">>, hr)
            ELSE Returned(BuildInternalServerError, <<>>)


\* "hook_result is not None and 'set_cookie' in hook_result": "yes", "no" or
\* "TypeError"
HasSetCookie(hr) == IF hr[1] = "none" THEN "no" ELSE KeyIn(SetCookieKey, hr)

\* build_redirect(location=hook_result['redirect'], has_cookie=True) for a
\* result that holds set_cookie == 'auth=true'
RedirectTo(hr, hs) ==
    IF DictHas(hr[2], RedirectKey)
    THEN Returned(BuildRedirect(PyFormat(DictGet(hr[2], RedirectKey, PyNone)), TRUE), hs)
    ELSE Raised("KeyError", hs)

\* Every result that holds set_cookie counts as logged in.
SetCookieIsAuthTrueAlways(hr) == hr[1] = "dict"

\* hook_result['set_cookie'] == 'auth=true', for a result KeyIn found the key
\* in: only a dict can be indexed by it.
SetCookieIsAuthTrue(hr) == PyEq(DictGet(hr[2], SetCookieKey, PyNone), PyStr(AuthTrue))

\* Any result with set_cookie == 'auth=true' redirects, target or not.
LoginFlowNoTarget(hr) ==
    IF HasSetCookie(hr) = "TypeError" \/ (HasSetCookie(hr) = "yes" /\ hr[1] # "dict")
    THEN Raised("TypeError", <<>>)
    ELSE IF HasSetCookie(hr) = "yes"
    THEN IF SetCookieIsAuthTrue(hr) THEN RedirectTo(hr, <<>>)
         ELSE Returned(BuildUnauthorized, <<>>)
    ELSE Returned(BuildInternalServerError, <<>>)

\* The POST branch of "if path == '/login'"
LoginFlow(hr) ==
    IF HasSetCookie(hr) = "TypeError" \/ (HasSetCookie(hr) = "yes" /\ hr[1] # "dict")
    THEN Raised("TypeError", <<>>)
    ELSE IF HasSetCookie(hr) = "yes"
    THEN IF SetCookieIsAuthTrue(hr)
         THEN IF DictHas(hr[2], ChosenPeerKey)
                 /\ DictGet(hr[2], ChosenPeerKey, PyNone)[1] # "none"
              THEN RedirectTo(hr, <<>>)
              ELSE Returned(BuildInternalServerError, <<>>)
         ELSE Returned(BuildUnauthorized, <<>>)
    ELSE Returned(BuildInternalServerError, <<>>)

\* request.cookies as a Python value: None, or the CaseInsensitiveDict that
\* prepare_cookies stored.
CookiesValue(ck) == IF ck = NoDict THEN PyNone ELSE <<"CaseInsensitiveDict", ck>>

\* The root page is served whatever the cookies are.
RootDeniedNever(ck) == FALSE

\* "request.cookies != 'auth=true'"
RootDenied(ck) == ~PyEq(CookiesValue(ck), PyStr(AuthTrue))

\* The login page is behind the cookie check of the root page.
StaticTargetLoginGated(p, m, mime, ck) ==
    IF p \in {LoginPath, LoginHtml, Slash, IndexHtml}
    THEN IF RootDenied(ck) THEN [kind |-> "deny", path |-> p, type |-> TextHtml]
         ELSE [kind |-> "serve", path |-> IndexHtmlFile, type |-> TextHtml]
    ELSE [kind |-> "notfound", path |-> p, type |-> mime]

\* The if/elif chain of static serving: what is served from which type's
\* directory, or the 401 of the root page, or the 404.
StaticTarget(p, m, mime, ck) ==
    IF (p = LoginPath \/ p = LoginHtml) /\ m = GET
    THEN [kind |-> "serve", path |-> LoginHtml, type |-> TextHtml]
    ELSE IF p = Slash \/ p = IndexHtml
    THEN IF RootDenied(ck) THEN [kind |-> "deny", path |-> p, type |-> TextHtml]
         ELSE [kind |-> "serve", path |-> IndexHtmlFile, type |-> TextHtml]
    ELSE IF EndsWith(p, FaviconIco)
    THEN [kind |-> "serve", path |-> p, type |-> ImageXIcon]
    ELSE IF EndsWith(p, <<".","h","t","m","l">>) \/ mime = TextHtml
    THEN [kind |-> "serve", path |-> p, type |-> TextHtml]
    ELSE IF mime = TextCss
    THEN [kind |-> "serve", path |-> p, type |-> TextCss]
    ELSE IF mime \in {ImagePng, ImageJpeg, ImageGif, ImageXIcon}
    THEN [kind |-> "serve", path |-> p, type |-> ImagePng]
    ELSE [kind |-> "notfound", path |-> p, type |-> mime]

\* build_content and build_response_header on the file system fs
ServeFile(p, pct, rq, fs) ==
    LET filepath == FilePath(p, pct.dir)
    IN  IF DictHas(fs, filepath)
        THEN LET c == DictGet(fs, filepath, <<>>)
             IN  [pc |-> "returned", exc |-> "",
                  bytes |-> BuildResponseHeader(rq, pct.hdrs, c) \o c,
                  opened |-> <<filepath>>, hdrs |-> pct.hdrs, content |-> c]
        ELSE [pc |-> "raised", exc |-> "FileNotFoundError", bytes |-> <<>>,
              opened |-> <<filepath>>, hdrs |-> pct.hdrs, content |-> <<>>]

\* "--- Static File Serving ---"
StaticServing(p, m, mime, ck, rq, hs, fs) ==
    LET t == StaticTarget(p, m, mime, ck)
    IN  CASE t.kind = "deny" -> Returned(BuildUnauthorized, hs)
          [] t.kind = "notfound" -> Returned(BuildNotFound, hs)
          [] OTHER ->
               LET pct == PrepareContentType(hs, t.type)
               IN  IF pct.exc # "" THEN Raised(pct.exc, pct.hdrs)
                   ELSE ServeFile(t.path, pct, rq, fs)

\* build_response(request, hook_result) for a request with method m, path p,
\* cookies ck and headers rq, on the file system fs
BuildResponseOutcome(m, p, ck, rq, hr, fs) ==
    IF <<p, m>> \in ApiKeys THEN ApiRule(<<p, m>>, hr)
    ELSE IF p = LoginPath /\ m = POST THEN LoginFlow(hr)
    ELSE LET loginGet == p = LoginPath /\ m = GET
             hs == IF loginGet THEN PrepareContentType(<<>>, TextHtml).hdrs ELSE <<>>
             p1 == IF loginGet THEN LoginHtml ELSE p
             mime == IF loginGet THEN TextHtml ELSE GetMimeType(p)
         IN  IF HasSetCookie(hr) = "TypeError" \/ (HasSetCookie(hr) = "yes" /\ hr[1] # "dict")
             THEN Raised("TypeError", hs)
             ELSE IF HasSetCookie(hr) = "yes"
             THEN IF SetCookieIsAuthTrue(hr) THEN RedirectTo(hr, hs)
                  ELSE Returned(BuildUnauthorized, hs)
             ELSE StaticServing(p1, m, mime, ck, rq, hs, fs)

\* resp.build_response(req, hook_result) on the request Request.prepare left
BuildResponse(hr) ==
    /\ call = "prepare" /\ pc = "returned"
    /\ respPc = "new"
    /\ hookResult' = hr
    /\ LET out == BuildResponseOutcome(method, path, cookies, headers, hr, files)
       IN  /\ respPc' = out.pc /\ respExc' = out.exc
           /\ response' = out.bytes
           /\ opened' = out.opened
           /\ respHeaders' = out.hdrs
           /\ content' = out.content
    /\ UNCHANGED files


(***************************************************************************)
(* The requests, handler results and file systems build_response is run on *)
(***************************************************************************)
StaticPaths ==
    { Slash, IndexHtml, LoginPath, <<"/","x",".","h","t","m","l">>, <<"/","a",".","c","s","s">>, <<"/","a",".","p","n","g">>, <<"/","a",".","j","p","g">>,
      <<"/","f","a","v","i","c","o","n",".","i","c","o">>, <<"/","a",".","t","x","t">>, <<"/","n","o","p","e">>,
      <<"/","a",".","g","i","f">>, <<"/","a",".","c","s","v">>, <<"/","a",".","j","s","o","n">>, <<"/","a",".","m","p","4">>, <<"/","a",".","m","p","3">>, <<"/","a",".","j","s">> }

ResponsePaths == StaticPaths \cup {k[1] : k \in ApiKeys}

CookieLines ==
    { <<"C","o","o","k","i","e",":"," ","a","u","t","h","=","t","r","u","e">>, <<"C","o","o","k","i","e",":"," ","a","u","t","h","=","f","a","l","s","e">>, <<"C","o","o","k","i","e",":"," ","a","=","1",";"," ","a","u","t","h","=","t","r","u","e">> }

\* Headers a client sends about itself.
ClientHeaderBlocks ==
    { <<<<"A","c","c","e","p","t",":"," ","t","e","x","t","/","h","t","m","l">>>>,
      <<<<"A","c","c","e","p","t","-","L","a","n","g","u","a","g","e",":"," ","f","r">>, <<"U","s","e","r","-","A","g","e","n","t",":"," ","c","u","r","l","/","8">>, <<"A","u","t","h","o","r","i","z","a","t","i","o","n",":"," ","B","a","s","i","c"," ","d","T","p","w">>>> }

\* No header, one cookie header, or headers of the client
ResponseHeaderBlocks == {<<>>} \cup {<<c>> : c \in CookieLines} \cup ClientHeaderBlocks

ResponseMessages ==
    { Framed(m \o SP \o p \o SP \o Http11, hb, BodyPattern) :
        m \in {GET, POST}, p \in ResponsePaths, hb \in ResponseHeaderBlocks }

IndexPage == <<"<","h","1",">","i","n","d","e","x","<","/","h","1",">">>
LoginPage == <<"<","h","1",">","l","o","g","i","n"," ","c","a","f",EAcute,"<","/","h","1",">">>

ShippedPages == << <<<<"w","w","w","/","i","n","d","e","x",".","h","t","m","l">>, IndexPage>>, <<<<"w","w","w","/","l","o","g","i","n",".","h","t","m","l">>, LoginPage>> >>

\* Nothing on disk; the two pages of the application; those and the static
\* files the requests name.
FileSystems ==
    { <<>>,
      ShippedPages,
      ShippedPages \o << <<<<"w","w","w","/","x",".","h","t","m","l">>, <<"<","p",">","x","<","/","p",">">>>>,
                         <<<<"s","t","a","t","i","c","/","a",".","c","s","s">>, <<"p","{","}">>>>,
                         <<<<"s","t","a","t","i","c","/","a",".","p","n","g">>, <<"P","N","G">>>>,
                         <<<<"s","t","a","t","i","c","/","a",".","j","p","g">>, <<"J","F","I","F">>>>,
                         <<<<"s","t","a","t","i","c","/","f","a","v","i","c","o","n",".","i","c","o">>, <<"I","C","O">>>>,
                         <<<<"s","t","a","t","i","c","/","a",".","g","i","f">>, <<"G","I","F","8">>>>,
                         <<<<"s","t","a","t","i","c","/","a",".","t","x","t">>, <<"t","x","t">>>>,
                         <<<<"c","s","v","/","a",".","c","s","v">>, <<"1",",","2">>>>,
                         <<<<"a","p","p","s","/","a",".","j","s","o","n">>, <<"{","}">>>>,
                         <<<<"v","i","d","e","o","s","/","a",".","m","p","4">>, <<"f","t","y","p">>>>,
                         <<<<"s","t","a","t","i","c","/","a",".","m","p","3">>, <<"I","D","3">>>>,
                         <<<<"s","t","a","t","i","c","/","a",".","j","s">>, <<";">>>> >> }

PeerUrl == <<"h","t","t","p",":","/","/","1","0",".","0",".","0",".","7",":","9","0","0","5">>

APeer ==
    PyDict(<< <<<<"i","p">>, PyStr(<<"1","0",".","0",".","0",".","7">>)>>, <<<<"p","o","r","t">>, PyStr(<<"9","0","0","5">>)>>,
              <<<<"i","s","U","s","e","d">>, PyInt(1)>> >>)

\* What the login handler returns: logged in with a peer, logged in with no
\* peer left, rejected.
LoginAccepted ==
    PyDict(<< <<ChosenPeerKey, APeer>>, <<<<"c","o","n","t","e","n","t","_","p","a","t","h">>, PyStr(IndexHtml)>>,
              <<RedirectKey, PyStr(PeerUrl)>>, <<SetCookieKey, PyStr(AuthTrue)>> >>)
LoginNoPeer == PyDict(<< <<ChosenPeerKey, PyNone>> >>)
LoginRejected ==
    PyDict(<< <<<<"c","o","n","t","e","n","t","_","p","a","t","h">>, PyStr(<<"/","l","o","g","i","n",".","h","t","m","l">>)>>,
              <<RedirectKey, PyStr(<<"/","l","o","g","i","n",".","h","t","m","l">>)>>,
              <<SetCookieKey, PyStr(<<"a","u","t","h","=","f","a","l","s","e">>)>> >>)

HookResults ==
    { PyNone, PyBool(TRUE), PyBool(FALSE), PyStr(<<"[","]">>),
      PyList(<<PyStr(<<"g","e","n","e","r","a","l">>), PyStr(<<"h","e","l","p">>)>>), PyDict(<<>>),
      LoginAccepted, LoginNoPeer, LoginRejected,
      PyDict(<< <<ChosenPeerKey, PyNone>>, <<RedirectKey, PyStr(PeerUrl)>>,
                <<SetCookieKey, PyStr(AuthTrue)>> >>),
      PyDict(<< <<RedirectKey, PyStr(PeerUrl)>>, <<SetCookieKey, PyStr(AuthTrue)>> >>),
      PyDict(<< <<StatusKey, PyStr(Success)>>, <<MessageKey, PyStr(<<"o","k">>)>> >>),
      PyDict(<< <<StatusKey, PyStr(<<"e","r","r","o","r">>)>>, <<MessageKey, PyStr(<<"n","o">>)>> >>) }

InitResponse ==
    /\ FreshRequest
    /\ request \in ResponseMessages
    /\ arg = <<>>
    /\ ProxyIdle
    /\ ResponseIdle
    /\ files \in FileSystems
    /\ hookResult = PyNone
    /\ TrackerIdle /\ database = <<>>

NextResponse ==
    /\ \/ (\E rt \in RouteTables : Prepare(rt)) /\ UNCHANGED respVars
       \/ (\E hr \in HookResults : BuildResponse(hr)) /\ UNCHANGED reqVars
    /\ UNCHANGED <<proxyVars, trackerVars>>

SpecResponse == InitResponse /\ [][NextResponse]_vars


(***************************************************************************)
(* Reading a response as a client does.                                    *)
(***************************************************************************)
\* The lines before the first blank line.
RespLines(r) == Split(SubSeq(r, 1, Find(r, BodyPattern) - 1), CRLF)

\* What follows the first blank line.
RespBody(r) == SubSeq(r, Find(r, BodyPattern) + Len(BodyPattern), Len(r))

StatusLine(r) == RespLines(r)[1]

\* Whether the response has a header of that name.
HasRespHeader(r, name) ==
    \E i \in 2..Len(RespLines(r)) : StartsWith(RespLines(r)[i], name \o ColonSpace)

\* The value of the first header of that name.
RespHeader(r, name) ==
    LET ls == RespLines(r)
        i  == CHOOSE k \in 2..Len(ls) :
                  /\ StartsWith(ls[k], name \o ColonSpace)
                  /\ \A j \in 2..(k - 1) : ~StartsWith(ls[j], name \o ColonSpace)
    IN  SubSeq(ls[i], Len(name) + Len(ColonSpace) + 1, Len(ls[i]))

Is401(r) ==
    /\ StatusLine(r) = <<"H","T","T","P","/","1",".","1"," ","4","0","1"," ","U","n","a","u","t","h","o","r","i","z","e","d">>
    /\ RespBody(r) = <<"4","0","1"," ","U","n","a","u","t","h","o","r","i","z","e","d">>

Is500(r) ==
    /\ StatusLine(r) = <<"H","T","T","P","/","1",".","1"," ","5","0","0"," ","I","n","t","e","r","n","a","l"," ","S","e","r","v","e","r"," ","E","r","r","o","r">>
    /\ RespBody(r) = <<"5","0","0"," ","I","n","t","e","r","n","a","l"," ","S","e","r","v","e","r"," ","E","r","r","o","r">>

Is302(r) == StatusLine(r) = <<"H","T","T","P","/","1",".","1"," ","3","0","2"," ","F","o","u","n","d">>

Is200(r) == StatusLine(r) = <<"H","T","T","P","/","1",".","1"," ","2","0","0"," ","O","K">>

\* The canonical not-found response.
Is404(r) ==
    /\ StatusLine(r) = <<"H","T","T","P","/","1",".","1"," ","4","0","4"," ","N","o","t"," ","F","o","u","n","d">>
    /\ RespBody(r) = <<"4","0","4"," ","N","o","t"," ","F","o","u","n","d">>
    /\ HasRespHeader(r, <<"C","o","n","t","e","n","t","-","L","e","n","g","t","h">>)
    /\ RespHeader(r, <<"C","o","n","t","e","n","t","-","L","e","n","g","t","h">>) = <<"1","3">>

\* build_response was called, for a request whose handler gave nothing.
BuiltWithoutResult == respPc # "new" /\ hookResult[1] = "none"

\* The message carries the cookie auth=true.
CarriesAuthTrue == Contains(request, AuthTrue)

FileExists(f) == DictHas(files, f)

\* C14: a GET for "/" (normalized to "/index.html") whose request does not
\* carry the cookie auth=true and whose handler result is absent is answered
\* with the 401 response, and no file was opened.
C14_RootWithoutCookieIs401 ==
    (BuiltWithoutResult /\ method = GET /\ path = IndexHtml /\ ~CarriesAuthTrue) =>
        /\ respPc = "returned"
        /\ Is401(response)
        /\ opened = <<>>

\* The root page exists on disk, the request came with auth=false, and the
\* answer was the 401 without a file being opened.
C14_Witness ==
    /\ BuiltWithoutResult /\ method = GET /\ path = IndexHtml
    /\ Contains(request, <<"C","o","o","k","i","e",":"," ","a","u","t","h","=","f","a","l","s","e">>)
    /\ FileExists(<<"w","w","w","/","i","n","d","e","x",".","h","t","m","l">>)
    /\ respPc = "returned" /\ Is401(response) /\ opened = <<>>

\* C15: a GET for "/" whose request was parsed by Request.prepare from a
\* message carrying "Cookie: auth=true" is not answered 401: www/index.html
\* is loaded and returned as a 200 text/html response.
C15_RootWithCookieIs200 ==
    (BuiltWithoutResult /\ method = GET /\ path = IndexHtml
        /\ Contains(request, <<"C","o","o","k","i","e",":"," ","a","u","t","h","=","t","r","u","e">>) /\ FileExists(<<"w","w","w","/","i","n","d","e","x",".","h","t","m","l">>)) =>
        /\ respPc = "returned"
        /\ Is200(response)
        /\ RespHeader(response, ContentTypeKey) = TextHtml
        /\ RespBody(response) = IndexPage
        /\ opened = <<<<"w","w","w","/","i","n","d","e","x",".","h","t","m","l">>>>

\* C16: GET "/login" with no handler result resolves Content-Type text/html
\* and serves www/login.html, whatever cookies the request carries.
C16_LoginPageAlways ==
    (BuiltWithoutResult /\ method = GET /\ path = LoginPath) =>
        /\ DictGet(respHeaders, ContentTypeKey, <<>>) = TextHtml
        /\ opened = <<<<"w","w","w","/","l","o","g","i","n",".","h","t","m","l">>>>
        /\ FileExists(<<"w","w","w","/","l","o","g","i","n",".","h","t","m","l">>) =>
               /\ respPc = "returned"
               /\ Is200(response)
               /\ RespHeader(response, ContentTypeKey) = TextHtml
               /\ RespBody(response) = LoginPage

\* The login page went to a request without cookies.
C16_Witness ==
    /\ BuiltWithoutResult /\ method = GET /\ path = LoginPath
    /\ ~Contains(request, <<"C","o","o","k","i","e">>)
    /\ respPc = "returned" /\ Is200(response) /\ RespBody(response) = LoginPage

\* The login page went to a request with auth=false.
C16_WitnessOtherCookie ==
    /\ BuiltWithoutResult /\ method = GET /\ path = LoginPath
    /\ Contains(request, <<"C","o","o","k","i","e",":"," ","a","u","t","h","=","f","a","l","s","e">>)
    /\ respPc = "returned" /\ Is200(response) /\ RespBody(response) = LoginPage


\* No file of the file system is the one a path names.
NoFileFor(p) == \A f \in DictKeys(files) : ~EndsWith(f, p)

\* A request outside the API rules, the routes, the root page and the login
\* page, whose path names no file.
UnknownAndNoFile ==
    /\ BuiltWithoutResult
    /\ <<path, method>> \notin ApiKeys
    /\ path \notin {IndexHtml, LoginPath}
    /\ NoFileFor(path)

\* C17: every request whose (method, path) matches no API rule and no route
\* and for which no static file exists, the paths of a servable type whose
\* file is absent included, is answered with the canonical 404 (body
\* "404 Not Found", Content-Length 13); build_response does not raise.
C17_MissingFileIs404 ==
    UnknownAndNoFile => (respPc = "returned" /\ Is404(response))

\* Where build_response opens no file for such a request, it returns the
\* canonical 404.
UnservableTypeIs404 ==
    (UnknownAndNoFile /\ opened = <<>> /\ respPc = "returned") => Is404(response)

\* A missing file of a servable type escapes as FileNotFoundError.
MissingFileRaises ==
    (UnknownAndNoFile /\ opened # <<>>) =>
        (respPc = "raised" /\ respExc = "FileNotFoundError")

\* The set_cookie entry of a handler result, None where it has none.
SetCookieOf(hr) ==
    IF hr[1] = "dict" THEN DictGet(hr[2], SetCookieKey, PyNone) ELSE PyNone

\* The handler result names a peer to go to.
HasTarget(hr) ==
    /\ hr[1] = "dict"
    /\ DictHas(hr[2], ChosenPeerKey)
    /\ DictGet(hr[2], ChosenPeerKey, PyNone)[1] # "none"

\* POST /login was answered, for a result of one of the types a handler of
\* the repository returns (None, or a dict) or another container.
LoginAnswered ==
    /\ respPc # "new" /\ method = POST /\ path = LoginPath
    /\ hookResult[1] # "bool"

C18_WitnessNoTarget ==
    LoginAnswered /\ hookResult = LoginNoPeer /\ Is500(response)

C18_WitnessRejected ==
    LoginAnswered /\ hookResult = LoginRejected /\ Is401(response)

\* A response that was not read from a file: one of the canned builders, or
\* build_json_response.
CannedOrJson == respPc = "returned" /\ opened = <<>>

\* The Content-Length header is the byte length of the body.
ExactLength(r) ==
    /\ HasRespHeader(r, <<"C","o","n","t","e","n","t","-","L","e","n","g","t","h">>)
    /\ DecimalValue(RespHeader(r, <<"C","o","n","t","e","n","t","-","L","e","n","g","t","h">>)) = ByteLength(RespBody(r))

\* C20: every canned response builder (404 plain, 404 JSON, 401, 302 with
\* and without Set-Cookie, 500) and build_json_response emits a
\* Content-Length equal to the UTF-8 byte length of the body it emits.
C20_ContentLengthExact == CannedOrJson => ExactLength(response)

\* Every builder but build_redirect is exact.
ExactExceptRedirect ==
    (CannedOrJson /\ ~Is302(response)) => ExactLength(response)

\* build_redirect announces 13 bytes for a body of 9.
RedirectAnnounces13 ==
    (CannedOrJson /\ Is302(response)) =>
        /\ RespHeader(response, <<"C","o","n","t","e","n","t","-","L","e","n","g","t","h">>) = <<"1","3">>
        /\ ByteLength(RespBody(response)) = 9


(***************************************************************************)
(* The tracker: peer registrations and logins, one connection at a time.   *)
(***************************************************************************)
RegisterPeerPoolHandler == <<"register_peer_pool">>
RegisterPath == <<"/","r","e","g","i","s","t","e","r","-","p","e","e","r","-","p","o","o","l">>

IpKey == <<"i","p">>
PortKey == <<"p","o","r","t">>
IsUsedKey == <<"i","s","U","s","e","d">>

\* What a handler call gave: the value returned and the module state it left,
\* or the exception that left the handler.
Handled(result, peers, active) ==
    [exc |-> "", result |-> result, peers |-> peers, active |-> active]

HandlerRaised(e, peers, active) ==
    [exc |-> e, result |-> PyNone, peers |-> peers, active |-> active]

RECURSIVE PeerFromItems(_)
\* "for item in body_split: key, value = item.split('='); peer[key] = value"
PeerFromItems(items) ==
    IF items = <<>> THEN <<>>
    ELSE LET kv == Split(items[Len(items)], <<"=">>)
         IN  DictSet(PeerFromItems(SubSeq(items, 1, Len(items) - 1)), kv[1], PyStr(kv[2]))

\* register_peer_pool(headers, body)
RegisterPeerPoolCall(b, peers, active) ==
    LET items == Split(b, <<"&">>)
    IN  IF \E i \in 1..Len(items) : Len(Split(items[i], <<"=">>)) # 2
        THEN HandlerRaised("ValueError", peers, active)
        ELSE LET peer == DictSet(PeerFromItems(items), IsUsedKey, PyInt(0))
             IN  IF ~DictHas(peer, IpKey) \/ ~DictHas(peer, PortKey)
                 THEN HandlerRaised("KeyError", peers, active)
                 ELSE LET key == <<DictGet(peer, IpKey, PyNone)[2],
                                   DictGet(peer, PortKey, PyNone)[2]>>
                      IN  IF DictHas(peers, key)
                          THEN Handled(PyBool(FALSE), peers, active)
                          ELSE Handled(PyBool(TRUE),
                                       Append(peers, <<key, PyDict(peer)>>), active)

\* login_user(username, password) over the rows of the database file
LoginUser(db, username, password) ==
    \E i \in 1..Len(db) : db[i][1] = username /\ db[i][2] = password

\* The peer is free: peer['isUsed'] == 0
IsFree(peer) == PyEq(DictGet(peer[2], IsUsedKey, PyNone), PyInt(0))

\* f"http://{peer['ip']}:{peer['port']}"
PeerUrlOf(peer) ==
    <<"h","t","t","p",":","/","/">> \o PyFormat(DictGet(peer[2], IpKey, PyNone))
        \o <<":">> \o PyFormat(DictGet(peer[2], PortKey, PyNone))

\* login(headers, body)
LoginCall(b, peers, active, db) ==
    LET body_split == SplitOnce(b, <<"&">>)
        first == Split(body_split[1], <<"=">>)
    IN  IF Len(first) < 2 \/ Len(body_split) < 2 THEN HandlerRaised("IndexError", peers, active)
        ELSE IF Len(Split(body_split[2], <<"=">>)) < 2
        THEN HandlerRaised("IndexError", peers, active)
        ELSE LET username == first[2]
                 password == Split(body_split[2], <<"=">>)[2]
                 free == {i \in 1..Len(peers) : IsFree(peers[i][2])}
             IN  IF LoginUser(db, username, password)
                 THEN IF free # {}
                      THEN LET i == CHOOSE k \in free : \A j \in free : k <= j
                               peer == PyDict(DictSet(peers[i][2][2], IsUsedKey, PyInt(1)))
                           IN  Handled(PyDict(<< <<ChosenPeerKey, peer>>,
                                                 <<<<"c","o","n","t","e","n","t","_","p","a","t","h">>, PyStr(IndexHtml)>>,
                                                 <<RedirectKey, PyStr(PeerUrlOf(peer))>>,
                                                 <<SetCookieKey, PyStr(AuthTrue)>> >>),
                                       [peers EXCEPT ![i] = <<peers[i][1], peer>>],
                                       Append(active, peer))
                      ELSE Handled(PyDict(<< <<ChosenPeerKey, PyNone>> >>), peers, active)
                 ELSE Handled(PyDict(<< <<<<"c","o","n","t","e","n","t","_","p","a","t","h">>, PyStr(<<"/","l","o","g","i","n",".","h","t","m","l">>)>>,
                                        <<RedirectKey, PyStr(<<"/","l","o","g","i","n",".","h","t","m","l">>)>>,
                                        <<SetCookieKey, PyStr(<<"a","u","t","h","=","f","a","l","s","e">>)>> >>),
                              peers, active)

\* The routes register_tracker_routes adds that take part here.
TrackerRoutes ==
    << <<<<POST, RegisterPath>>, RegisterPeerPoolHandler>>,
       <<<<POST, LoginPath>>, LoginHandler>> >>

\* A connection is accepted: a new Request and a new Response for its message.
Receive(msg) ==
    /\ request = <<>> \/ respPc # "new"
    /\ request' = msg /\ arg' = <<>>
    /\ method' = None /\ path' = None /\ version' = Unset
    /\ headers' = NoDict /\ cookies' = NoDict /\ body' = None
    /\ routes' = <<>> /\ hook' = None /\ auth' = Unset
    /\ pc' = "new" /\ call' = "" /\ exc' = "" /\ ret' = <<>>
    /\ response' = <<>> /\ respPc' = "new" /\ respExc' = "" /\ opened' = <<>>
    /\ respHeaders' = <<>> /\ content' = <<>> /\ hookResult' = PyNone
    /\ UNCHANGED <<files, trackerVars>>

\* The handler found for the request is called with its headers and body, and
\* build_response answers from what it returned.
Respond(out) ==
    /\ hookResult' = out.result
    /\ IF out.exc # ""
       THEN /\ respPc' = "raised" /\ respExc' = out.exc
            /\ UNCHANGED <<response, opened, respHeaders, content>>
       ELSE LET r == BuildResponseOutcome(method, path, cookies, headers, out.result, files)
            IN  /\ respPc' = r.pc /\ respExc' = r.exc
                /\ response' = r.bytes
                /\ opened' = r.opened
                /\ respHeaders' = r.hdrs
                /\ content' = r.content
    /\ UNCHANGED files

\* The same for a handler of the tracker, which works on PEER_DICT and
\* active_peers.
Serve(out) ==
    /\ peerDict' = out.peers
    /\ activePeers' = out.active
    /\ Respond(out)
    /\ UNCHANGED <<database, threadVars, peerVars>>

Parsed == call = "prepare" /\ pc = "returned" /\ respPc = "new"

HandleRegisterPeerPool ==
    /\ Parsed /\ hook = RegisterPeerPoolHandler
    /\ Serve(RegisterPeerPoolCall(body, peerDict, activePeers))

HandleLogin ==
    /\ Parsed /\ hook = LoginHandler
    /\ Serve(LoginCall(body, peerDict, activePeers, database))

(***************************************************************************)
(* The users, peers and messages the tracker is run on.                    *)
(***************************************************************************)
Ann == <<"a","n","n">>
Bob == <<"b","o","b">>
Pw == <<"p","w">>

Databases == { << <<Ann, Pw>> >>, << <<Ann, Pw>>, <<Bob, Pw>> >> }

RegisterBodies == { <<"i","p","=","1","0",".","0",".","0",".","7","&","p","o","r","t","=","9","0","0","5">>, <<"i","p","=","1","0",".","0",".","0",".","8","&","p","o","r","t","=","9","0","0","6">> }

LoginBody(u, p) == <<"u","s","e","r","n","a","m","e","=">> \o u \o <<"&","p","a","s","s","w","o","r","d","=">> \o p

LoginBodies ==
    { LoginBody(u, p) : u \in {Ann, Bob}, p \in {Pw, <<"n","o">>} } \cup { <<"u","s","e","r","n","a","m","e","=","a","n","n">> }

PostMessage(p, b) == POST \o SP \o p \o SP \o Http11 \o BodyPattern \o b

TrackerMessages ==
    { PostMessage(RegisterPath, b) : b \in RegisterBodies }
    \cup { PostMessage(LoginPath, b) : b \in LoginBodies }

InitTracker ==
    /\ RequestIdle
    /\ ProxyIdle
    /\ ResponseIdle /\ files = <<>> /\ hookResult = PyNone
    /\ TrackerIdle
    /\ database \in Databases

NextTracker ==
    /\ \/ \E msg \in TrackerMessages : Receive(msg)
       \/ Prepare(TrackerRoutes) /\ UNCHANGED restVars
       \/ HandleRegisterPeerPool /\ UNCHANGED reqVars
       \/ HandleLogin /\ UNCHANGED reqVars
    /\ UNCHANGED proxyVars

SpecTracker == InitTracker /\ [][NextTracker]_vars

\* POST /login was answered for a body that names a user and a password.
LoginServed ==
    /\ respPc # "new" /\ method = POST /\ path = LoginPath
    /\ respExc # "IndexError"

\* The credential oracle accepts the user and password of the body.
Accepted ==
    LoginUser(database, Split(SplitOnce(body, <<"&">>)[1], <<"=">>)[2],
              Split(SplitOnce(body, <<"&">>)[2], <<"=">>)[2])

\* C19: after any sequence of peer registrations and earlier logins, a POST
\* /login yields, whenever the credential oracle accepts (user, pass), a
\* response carrying Set-Cookie: auth=true and a redirect Location, and
\* whenever the oracle rejects them, a 401.
C19_LoginOutcome ==
    LoginServed =>
        /\ respPc = "returned"
        /\ IF Accepted
           THEN /\ HasRespHeader(response, <<"S","e","t","-","C","o","o","k","i","e">>)
                /\ RespHeader(response, <<"S","e","t","-","C","o","o","k","i","e">>) = AuthTrue
                /\ HasRespHeader(response, <<"L","o","c","a","t","i","o","n">>)
           ELSE Is401(response)

\* Rejected credentials get the 401, from the handler result auth=false.
RejectedIs401 ==
    (LoginServed /\ ~Accepted) =>
        /\ Is401(response)
        /\ PyEq(SetCookieOf(hookResult), PyStr(<<"a","u","t","h","=","f","a","l","s","e">>))

\* Accepted credentials get the redirect to the peer handed out when one was
\* free, and the 500 when none was.
AcceptedNeedsFreePeer ==
    (LoginServed /\ Accepted) =>
        IF HasTarget(hookResult)
        THEN /\ Is302(response)
             /\ RespHeader(response, <<"S","e","t","-","C","o","o","k","i","e">>) = AuthTrue
             /\ HasRespHeader(response, <<"L","o","c","a","t","i","o","n">>)
        ELSE Is500(response) /\ ~HasRespHeader(response, <<"S","e","t","-","C","o","o","k","i","e">>)

\* A login was accepted while no peer was registered.
AcceptedWithNoPeerRegistered ==
    LoginServed /\ Accepted /\ peerDict = <<>> /\ Is500(response)

\* A login was accepted after every registered peer had been handed out.
AcceptedWithAllPeersUsed ==
    /\ LoginServed /\ Accepted /\ Is500(response)
    /\ Len(peerDict) = 2 /\ Len(activePeers) = 2


\* build_response was called for a key of the API table.
ApiAnswered == respPc # "new" /\ <<path, method>> \in ApiKeys

\* C21: for every (path, method) key of the API table, build_response with
\* no handler result returns the 500 response and does not raise; the table
\* is consulted before the login flow, the cookie convention and static
\* serving (no redirect, no 401, no file opened for a result that holds
\* set_cookie).
C21_ApiTableWithoutResultIs500 ==
    ApiAnswered =>
        /\ hookResult[1] = "none" => (respPc = "returned" /\ Is500(response))
        /\ opened = <<>>
        /\ SetCookieOf(hookResult)[1] # "none" =>
               (respPc = "returned" => ~Is302(response) /\ ~Is401(response))

\* The keys that shape their result before handing it on answer 500 when
\* there is none.
ShapingKeysWithoutResultAre500 ==
    (ApiAnswered /\ hookResult[1] = "none" /\ <<path, method>> \notin EchoResult) =>
        (respPc = "returned" /\ Is500(response))

\* The keys that hand the result to build_json_response as it is raise when
\* there is none.
EchoKeysWithoutResultRaise ==
    (ApiAnswered /\ hookResult[1] = "none" /\ <<path, method>> \in EchoResult) =>
        (respPc = "raised" /\ respExc = "AttributeError")

\* The table comes first: no file is opened and no result is taken for a
\* login result.
ApiTableFirst ==
    ApiAnswered =>
        /\ opened = <<>>
        /\ SetCookieOf(hookResult)[1] # "none" =>
               (respPc = "returned" => ~Is302(response) /\ ~Is401(response))

\* build_response was called, outside the API table, with a handler result
\* that holds set_cookie.
CookieResultOutsideApi ==
    /\ respPc # "new" /\ <<path, method>> \notin ApiKeys
    /\ SetCookieOf(hookResult)[1] # "none"

\* The 302 of the result, or the 401, and no file read.
CookieConventionApplied ==
    /\ respPc = "returned"
    /\ opened = <<>>
    /\ IF PyEq(SetCookieOf(hookResult), PyStr(AuthTrue))
       THEN /\ Is302(response)
            /\ PyStr(RespHeader(response, <<"L","o","c","a","t","i","o","n">>))
                   = DictGet(hookResult[2], RedirectKey, PyNone)
            /\ RespHeader(response, <<"S","e","t","-","C","o","o","k","i","e">>) = AuthTrue
       ELSE Is401(response)

\* C22 as stated: outside the API table, for any path and method, a result
\* with set_cookie "auth=true" yields the 302 to the result's redirect with
\* Set-Cookie: auth=true, any other set_cookie yields 401, and no static
\* file is read.
C22_CookieConventionAnyPath == CookieResultOutsideApi => CookieConventionApplied

\* C22 as the code has it: the same, for every path and method outside the
\* API table other than POST /login, which the login flow answers first.
C22_CookieConventionOutsideLogin ==
    (CookieResultOutsideApi /\ ~(path = LoginPath /\ method = POST)) =>
        CookieConventionApplied

\* A GET for a stylesheet that is on disk was redirected from the handler's
\* login result, and the file was not opened.
C22_Witness ==
    /\ CookieResultOutsideApi /\ method = GET /\ path = <<"/","a",".","c","s","s">>
    /\ FileExists(<<"s","t","a","t","i","c","/","a",".","c","s","s">>)
    /\ hookResult = LoginAccepted
    /\ Is302(response) /\ RespHeader(response, <<"L","o","c","a","t","i","o","n">>) = PeerUrl
    /\ opened = <<>>

\* The same request with the rejected login result got the 401.
C22_WitnessRejected ==
    /\ CookieResultOutsideApi /\ method = GET /\ path = <<"/","a",".","c","s","s">>
    /\ FileExists(<<"s","t","a","t","i","c","/","a",".","c","s","s">>)
    /\ hookResult = LoginRejected /\ Is401(response) /\ opened = <<>>


\* The main type and the subtype of a MIME type.
MainType(mime) == SplitOnce(mime, Slash)[1]
SubType(mime) == SplitOnce(mime, Slash)[2]

\* The table of storage directories by MIME type; no directory for a type
\* that is not supported.
DirectoryOf(mime) ==
    CASE mime \in {<<"t","e","x","t","/","p","l","a","i","n">>, <<"t","e","x","t","/","c","s","s">>} -> <<"s","t","a","t","i","c","/">>
      [] mime = <<"t","e","x","t","/","h","t","m","l">> -> <<"w","w","w","/">>
      [] mime = <<"t","e","x","t","/","c","s","v">> -> <<"c","s","v","/">>
      [] mime = <<"t","e","x","t","/","x","m","l">> -> <<"x","m","l","/">>
      [] MainType(mime) = <<"i","m","a","g","e">> -> <<"s","t","a","t","i","c","/">>
      [] MainType(mime) = <<"a","p","p","l","i","c","a","t","i","o","n">> -> <<"a","p","p","s","/">>
      [] MainType(mime) = <<"v","i","d","e","o">> -> <<"v","i","d","e","o","s","/">>
      [] OTHER -> <<>>

\* The file the table names for a path.
TableFile(p) == DirectoryOf(GetMimeType(p)) \o SubSeq(p, 2, Len(p))

\* A GET reached static serving: no API key, no handler result, and neither
\* the root page nor the login page.
StaticGet ==
    /\ BuiltWithoutResult /\ method = GET
    /\ <<path, method>> \notin ApiKeys
    /\ path \notin {IndexHtml, LoginPath}

\* The file was read and returned in a 200.
Served(f) ==
    /\ respPc = "returned" /\ Is200(response)
    /\ opened = <<f>>
    /\ RespBody(response) = DictGet(files, f, <<>>)

\* C23: a GET for an existing file of a supported type is served from the
\* directory the table gives its type (static/ for text/plain, text/css and
\* image/*, www/ for text/html, csv/ for text/csv, xml/ for text/xml, apps/
\* for application/*, videos/ for video/*), and is not answered 404.
C23_ServedFromTableDirectory ==
    (StaticGet /\ DirectoryOf(GetMimeType(path)) # <<>> /\ FileExists(TableFile(path))) =>
        Served(TableFile(path))

\* The types the static chain names (text/html, text/css, image/*) are
\* served from the table's directory.
ChainTypesServed ==
    (StaticGet /\ FileExists(TableFile(path))
        /\ (GetMimeType(path) \in {<<"t","e","x","t","/","h","t","m","l">>, <<"t","e","x","t","/","c","s","s">>}
               \/ MainType(GetMimeType(path)) = <<"i","m","a","g","e">>)) =>
        Served(TableFile(path))

\* The other supported types are answered 404 with their file on disk.
OtherSupportedTypesAre404 ==
    (StaticGet /\ FileExists(TableFile(path))
        /\ DirectoryOf(GetMimeType(path)) # <<>>
        /\ GetMimeType(path) \notin {<<"t","e","x","t","/","h","t","m","l">>, <<"t","e","x","t","/","c","s","s">>}
        /\ MainType(GetMimeType(path)) # <<"i","m","a","g","e">>) =>
        (respPc = "returned" /\ Is404(response) /\ opened = <<>>)

\* The type resolved for the path has no directory in the table.
UnsupportedType == DirectoryOf(GetMimeType(path)) = <<>>

\* C24: a request that reaches static serving with a type whose main type
\* is unsupported (audio/*) or whose text subtype is unsupported
\* (text/javascript) is answered with the 500 response, never the 404.
C24_UnsupportedTypeIs500 ==
    (StaticGet /\ UnsupportedType) => (respPc = "returned" /\ Is500(response))

\* Such a request is answered 404.
UnsupportedTypeIs404 ==
    (StaticGet /\ UnsupportedType) => (respPc = "returned" /\ Is404(response))

\* The type resolved for the requested path, overrides included.
ResolvedType ==
    IF EndsWith(path, <<"f","a","v","i","c","o","n",".","i","c","o">>) THEN <<"i","m","a","g","e","/","x","-","i","c","o","n">>
    ELSE IF path \in {IndexHtml, LoginPath} THEN <<"t","e","x","t","/","h","t","m","l">>
    ELSE GetMimeType(path)

\* A 200 response read from a file.
Static200 == respPc = "returned" /\ Is200(response) /\ opened # <<>>

\* C25: in every static 200 response the Content-Type header is the MIME
\* type resolved for the requested path: the type guessed from the
\* extension, text/html for the html/root/login overrides, image/x-icon for
\* a path ending in favicon.ico.
C25_ContentTypeIsResolvedType ==
    Static200 => RespHeader(response, ContentTypeKey) = ResolvedType

\* Images other than the icon go out as image/png, whatever their type.
ImagesGoOutAsPng ==
    (Static200 /\ MainType(ResolvedType) = <<"i","m","a","g","e">> /\ ResolvedType # <<"i","m","a","g","e","/","x","-","i","c","o","n">>) =>
        RespHeader(response, ContentTypeKey) = <<"i","m","a","g","e","/","p","n","g">>

\* Everything but an image has its resolved type.
NonImagesHaveResolvedType ==
    (Static200 /\ (MainType(ResolvedType) # <<"i","m","a","g","e">> \/ ResolvedType = <<"i","m","a","g","e","/","x","-","i","c","o","n">>)) =>
        RespHeader(response, ContentTypeKey) = ResolvedType


\* The headers of the request that a static response echoes, each with the
\* value used when the request has none.
EchoedHeaders ==
    { <<<<"A","c","c","e","p","t">>, <<"a","p","p","l","i","c","a","t","i","o","n","/","j","s","o","n">>>>,
      <<<<"A","c","c","e","p","t","-","L","a","n","g","u","a","g","e">>, <<"e","n","-","U","S",",","e","n",";","q","=","0",".","9">>>>,
      <<<<"A","u","t","h","o","r","i","z","a","t","i","o","n">>, <<"B","a","s","i","c"," ","<","c","r","e","d","e","n","t","i","a","l","s",">">>>>,
      <<<<"U","s","e","r","-","A","g","e","n","t">>, <<"C","h","r","o","m","e","/","1","2","3",".","0",".","0",".","0">>>> }

\* C26: in a static 200 response built for a request parsed by
\* Request.prepare, the Accept, Accept-Language, Authorization and
\* User-Agent headers carry the value of the same-named request header when
\* the request has it, and the placeholder only when it lacks it.
C26_RequestHeadersEchoed ==
    Static200 =>
        \A e \in EchoedHeaders :
            RespHeader(response, e[1]) =
                IF DictHas(headers, Lower(e[1])) THEN DictGet(headers, Lower(e[1]), <<>>)
                ELSE e[2]

\* The placeholder is what every static 200 response carries, whatever the
\* request sent.
PlaceholdersAlways ==
    Static200 => \A e \in EchoedHeaders : RespHeader(response, e[1]) = e[2]

\* A request that sent "Accept: text/html" was answered with the placeholder.
SentAcceptGotPlaceholder ==
    /\ Static200
    /\ DictGet(headers, <<"a","c","c","e","p","t">>, <<>>) = <<"t","e","x","t","/","h","t","m","l">>
    /\ RespHeader(response, <<"A","c","c","e","p","t">>) = <<"a","p","p","l","i","c","a","t","i","o","n","/","j","s","o","n">>


\* The lines between the request line and the first blank line.
HeadLines(req) ==
    Tail(Split(IF Contains(req, BodyPattern) THEN SplitOnce(req, BodyPattern)[1] ELSE req,
               CRLF))

\* The header map has, apart from the recomputed content-length and the
\* canonical cookie, exactly the keys of the "Key: Value" lines of the head,
\* each with the value of its last such line.
HeadersFromHeadOnly ==
    LET ls    == HeadLines(request)
        pairs == {i \in 1..Len(ls) : IsPairLine(ls[i])}
        own   == DictKeys(headers) \ {ContentLengthKey, CookieKey}
    IN  /\ own = {KeyOf(ls[i]) : i \in pairs} \ {ContentLengthKey, CookieKey}
        /\ \A i \in pairs :
               (/\ KeyOf(ls[i]) \notin {ContentLengthKey, CookieKey}
                /\ \A j \in pairs : j > i => KeyOf(ls[j]) # KeyOf(ls[i]))
                   => DictGet(headers, KeyOf(ls[i]), None) = ValueOf(ls[i])

\* C27: the header map produced by Request.prepare contains only entries
\* taken from the lines between the request line and the first blank line
\* (plus the recomputed content-length and the canonical cookie): a line of
\* the body that contains ": " never adds or overwrites a header.
C27_BodyLinesAddNoHeader ==
    (call = "prepare" /\ pc = "returned") => HeadersFromHeadOnly

\* With no "Key: Value" line in the body, the map is that of the head.
HeadOnlyWhenBodyHasNoPair ==
    (call = "prepare" /\ pc = "returned"
        /\ \A i \in 1..Len(Split(BodyOf(request), CRLF)) :
               ~IsPairLine(Split(BodyOf(request), CRLF)[i])) =>
        HeadersFromHeadOnly

\* A "Host: evil" line of the body became the host header.
BodyLineBecameHeader ==
    /\ call = "prepare" /\ pc = "returned"
    /\ DictGet(headers, <<"h","o","s","t">>, None) = <<"e","v","i","l">>
    /\ \A i \in 1..Len(HeadLines(request)) : HeadLines(request)[i] # <<"H","o","s","t",":"," ","e","v","i","l">>


\* C28: for a virtual host configured with exactly one proxy_pass origin,
\* every selection on the registry entry parse_virtual_hosts built returns
\* that whole origin ("ip:port"), whatever the number of selections and the
\* cursor value; the cursor still advances by one per selection.
C28_SingleOriginSelected ==
    \A o \in SingleOrigins :
        configText = SingleOriginConfig(o) =>
            LET sel == SelectionsOf(HostA)
            IN  /\ \A k \in 1..Len(sel) : sel[k][2] = k - 1 /\ sel[k][3] = o
                /\ proxyPc = "serving" =>
                       DictGet(proxyRoutes, HostA, <<>>)[1] = <<"str", o>>

\* Three selections for the single-origin host, at the cursor values 0, 1
\* and 2, all returned the origin.
C28_Witness ==
    /\ configText = SingleOriginConfig(OriginC)
    /\ Len(SelectionsOf(HostA)) = 3
    /\ \A k \in 1..3 : SelectionsOf(HostA)[k] = <<HostA, k - 1, OriginC>>
    /\ DictGet(cursor, HostA, 0) = 3



(***************************************************************************)
(* The tracker under concurrent connections.  Every accepted connection    *)
(* runs its handler on a thread of its own; the handlers of                *)
(* start_sampleapp take no lock, so a thread may be preempted between any  *)
(* two accesses of PEER_DICT, of a peer dict or of active_peers.           *)
(***************************************************************************)
NumConnections == 3

Threads == 1..NumConnections

\* A thread no connection was handed to yet.
IdleThread ==
    [pc |-> "idle", hook |-> None, body |-> <<>>, idx |-> 0, size |-> 0,
     id |-> 0, peer |-> <<>>, result |-> PyNone]

\* (peer['ip'], peer['port'])
PeerKeyOf(peer) == <<DictGet(peer, IpKey, PyNone)[2], DictGet(peer, PortKey, PyNone)[2]>>

\* PEER_DICT as the handlers see it: each key with the dict it refers to.
PeerDictOf(keys, ids, objs) ==
    [i \in 1..Len(ids) |-> <<keys[i][1], PyDict(objs[ids[i]])>>]

\* the position of key in PEER_DICT, 0 when it is not a key
PeerIndex(peers, key) ==
    IF DictHas(peers, key) THEN CHOOSE i \in 1..Len(peers) : peers[i][1] = key ELSE 0

\* The return values of login.
LoginGranted(peer) ==
    PyDict(<< <<ChosenPeerKey, PyDict(peer)>>,
              <<<<"c","o","n","t","e","n","t","_","p","a","t","h">>, PyStr(IndexHtml)>>,
              <<RedirectKey, PyStr(PeerUrlOf(PyDict(peer)))>>,
              <<SetCookieKey, PyStr(AuthTrue)>> >>)

\* The accept loop hands the next connection, a POST for handler h with body
\* b, to a new thread.
Connect(t, h, b) ==
    /\ threads[t].pc = "idle"
    /\ \A u \in Threads : u < t => threads[u].pc # "idle"
    /\ threads' = [threads EXCEPT ![t] = [IdleThread EXCEPT !.pc = "called", !.hook = h, !.body = b]]
    /\ UNCHANGED <<peerDict, activePeers, peerObjs, peerIds>>

\* register_peer_pool up to its test "(peer['ip'], peer['port']) in PEER_DICT"
RegisterCheck(t) ==
    /\ threads[t].pc = "called" /\ threads[t].hook = RegisterPeerPoolHandler
    /\ LET items == Split(threads[t].body, <<"&">>)
           peer == DictSet(PeerFromItems(items), IsUsedKey, PyInt(0))
       IN  threads' = [threads EXCEPT ![t] =
             IF \E i \in 1..Len(items) : Len(Split(items[i], <<"=">>)) # 2
             THEN [@ EXCEPT !.pc = "raised", !.result = PyStr(<<"V","a","l","u","e","E","r","r","o","r">>)]
             ELSE IF ~DictHas(peer, IpKey) \/ ~DictHas(peer, PortKey)
             THEN [@ EXCEPT !.pc = "raised", !.result = PyStr(<<"K","e","y","E","r","r","o","r">>)]
             ELSE IF DictHas(peerDict, PeerKeyOf(peer))
             THEN [@ EXCEPT !.pc = "done", !.result = PyBool(FALSE)]
             ELSE [@ EXCEPT !.pc = "store", !.peer = peer]]
    /\ UNCHANGED <<peerDict, activePeers, peerObjs, peerIds>>

\* "PEER_DICT[(peer['ip'], peer['port'])] = peer" and "return True"
RegisterStore(t) ==
    /\ threads[t].pc = "store"
    /\ LET peer == threads[t].peer
           key == PeerKeyOf(peer)
           at == PeerIndex(peerDict, key)
           id == Len(peerObjs) + 1
           ids == IF at = 0 THEN Append(peerIds, id) ELSE [peerIds EXCEPT ![at] = id]
           keys == IF at = 0 THEN Append(peerDict, <<key, PyNone>>) ELSE peerDict
       IN  /\ peerObjs' = Append(peerObjs, peer)
           /\ peerIds' = ids
           /\ peerDict' = PeerDictOf(keys, ids, peerObjs')
           /\ threads' = [threads EXCEPT ![t] =
                             [@ EXCEPT !.pc = "done", !.id = id, !.result = PyBool(TRUE)]]
    /\ UNCHANGED activePeers

\* login up to "for key, peer in PEER_DICT.items()": the body is taken apart,
\* login_user is asked, the iteration is set up.
LoginBegin(t) ==
    /\ threads[t].pc = "called" /\ threads[t].hook = LoginHandler
    /\ LET body_split == SplitOnce(threads[t].body, <<"&">>)
           first == Split(body_split[1], <<"=">>)
       IN  threads' = [threads EXCEPT ![t] =
             IF Len(first) < 2 \/ Len(body_split) < 2
             THEN [@ EXCEPT !.pc = "raised", !.result = PyStr(<<"I","n","d","e","x","E","r","r","o","r">>)]
             ELSE IF Len(Split(body_split[2], <<"=">>)) < 2
             THEN [@ EXCEPT !.pc = "raised", !.result = PyStr(<<"I","n","d","e","x","E","r","r","o","r">>)]
             ELSE IF LoginUser(database, first[2], Split(body_split[2], <<"=">>)[2])
             THEN [@ EXCEPT !.pc = "next", !.idx = 1, !.size = Len(peerDict)]
             ELSE [@ EXCEPT !.pc = "done", !.result = LoginRejected]]
    /\ UNCHANGED <<peerDict, activePeers, peerObjs, peerIds>>

\* The for statement takes the next (key, peer) of PEER_DICT.items(); the
\* iterator raises when the dict changed size, and the loop falls through to
\* "return {'chosen_peer': None}" when it is exhausted.
LoginNext(t) ==
    /\ threads[t].pc = "next"
    /\ threads' = [threads EXCEPT ![t] =
          IF Len(peerDict) # threads[t].size
          THEN [@ EXCEPT !.pc = "raised", !.result = PyStr(<<"R","u","n","t","i","m","e","E","r","r","o","r">>)]
          ELSE IF threads[t].idx > Len(peerDict)
          THEN [@ EXCEPT !.pc = "done", !.result = LoginNoPeer]
          ELSE [@ EXCEPT !.pc = "test", !.id = peerIds[threads[t].idx]]]
    /\ UNCHANGED <<peerDict, activePeers, peerObjs, peerIds>>

\* "if peer['isUsed'] == 0:"
LoginTest(t) ==
    /\ threads[t].pc = "test"
    /\ threads' = [threads EXCEPT ![t] =
          IF IsFree(PyDict(peerObjs[threads[t].id]))
          THEN [@ EXCEPT !.pc = "mark"]
          ELSE [@ EXCEPT !.pc = "next", !.idx = @ + 1, !.id = 0]]
    /\ UNCHANGED <<peerDict, activePeers, peerObjs, peerIds>>

\* "peer['isUsed'] = 1"
LoginMark(t) ==
    /\ threads[t].pc = "mark"
    /\ peerObjs' = [peerObjs EXCEPT ![threads[t].id] = DictSet(@, IsUsedKey, PyInt(1))]
    /\ peerDict' = PeerDictOf(peerDict, peerIds, peerObjs')
    /\ threads' = [threads EXCEPT ![t] = [@ EXCEPT !.pc = "append"]]
    /\ UNCHANGED <<activePeers, peerIds>>

\* "active_peers.append(peer)" and the return of the chosen peer
LoginAppend(t) ==
    /\ threads[t].pc = "append"
    /\ activePeers' = Append(activePeers, PyDict(peerObjs[threads[t].id]))
    /\ threads' = [threads EXCEPT ![t] =
                      [@ EXCEPT !.pc = "done", !.result = LoginGranted(peerObjs[threads[t].id])]]
    /\ UNCHANGED <<peerDict, peerObjs, peerIds>>

\* The requests the connections carry.
ThreadLoginBodies == { LoginBody(Ann, Pw), LoginBody(Bob, Pw), LoginBody(Ann, <<"n","o">>) }

InitThreads ==
    /\ RequestIdle
    /\ ProxyIdle
    /\ ResponseIdle /\ files = <<>> /\ hookResult = PyNone
    /\ peerDict = <<>> /\ activePeers = <<>> /\ peerObjs = <<>> /\ peerIds = <<>>
    /\ threads = [t \in Threads |-> IdleThread]
    /\ receivedMessages = <<>> /\ accepted = <<>> /\ polled = <<>>
    /\ database \in Databases

NextThreads ==
    /\ \E t \in Threads :
          \/ \E b \in RegisterBodies : Connect(t, RegisterPeerPoolHandler, b)
          \/ \E b \in ThreadLoginBodies : Connect(t, LoginHandler, b)
          \/ RegisterCheck(t)
          \/ RegisterStore(t)
          \/ LoginBegin(t)
          \/ LoginNext(t)
          \/ LoginTest(t)
          \/ LoginMark(t)
          \/ LoginAppend(t)
    /\ UNCHANGED <<reqVars, proxyVars, respVars, database, peerVars>>

SpecThreads == InitThreads /\ [][NextThreads]_vars

\* The login on thread t returned a chosen peer.
Chose(t) ==
    /\ threads[t].pc = "done" /\ threads[t].hook = LoginHandler
    /\ threads[t].id # 0

\* The peer the login on thread t returned.
ChosenPeer(t) == PeerKeyOf(peerObjs[threads[t].id])

\* No peer was returned as chosen_peer by two logins.
ExclusiveChoice ==
    \A t, u \in DOMAIN threads :
        t # u /\ Chose(t) /\ Chose(u) => ChosenPeer(t) # ChosenPeer(u)

\* active_peers holds each peer at most once.
ActiveOnce ==
    \A i, j \in 1..Len(activePeers) :
        i # j => PeerKeyOf(activePeers[i][2]) # PeerKeyOf(activePeers[j][2])

\* The isUsed flag of a registered peer does not go back from 1 to 0.
FlagNeverReset ==
    \A i \in 1..Len(peerDict) :
        ~IsFree(peerDict[i][2]) => ~IsFree(peerDict'[i][2])

\* C29: after any interleaving of /register-peer-pool and POST /login
\* requests, logins on concurrent connection threads included, no registered
\* peer is returned as chosen_peer by more than one successful login, a
\* peer's isUsed flag never returns from 1 to 0, and active_peers contains
\* each peer at most once.
C29_PeerAllocationExclusive ==
    [](ExclusiveChoice /\ ActiveOnce) /\ [][FlagNeverReset]_vars

\* The three parts of it, one at a time.
C29_ChosenOnce == ExclusiveChoice
C29_ActiveOnce == ActiveOnce
C29_FlagMonotone == [][FlagNeverReset]_vars

\* What does hold under every interleaving: a peer is in active_peers with
\* isUsed 1, and every login that returned a peer appended it.
ActivePeersAreUsed ==
    /\ \A i \in 1..Len(activePeers) : ~IsFree(activePeers[i])
    /\ Cardinality({t \in DOMAIN threads : Chose(t)}) = Len(activePeers)

\* Two logins were given the same peer.
TwoLoginsOnePeer ==
    \E t, u \in DOMAIN threads :
        t # u /\ Chose(t) /\ Chose(u) /\ threads[t].id = threads[u].id

\* When every request is handled before the next one is accepted, as in
\* SpecTracker, the allocation is exclusive.
SequentialAllocationExclusive ==
    /\ ActiveOnce
    /\ \A i \in 1..Len(activePeers) :
          \E k \in 1..Len(peerDict) : peerDict[k][2] = activePeers[i]


(***************************************************************************)
(* The peer's inbox: /receive-message and /get-received-messages.          *)
(***************************************************************************)
ReceiveMessageHandler == <<"receive_message">>
GetReceivedMessagesHandler == <<"get_received_messages">>
ReceiveMessagePath == <<"/","r","e","c","e","i","v","e","-","m","e","s","s","a","g","e">>
GetReceivedMessagesPath == <<"/","g","e","t","-","r","e","c","e","i","v","e","d","-","m","e","s","s","a","g","e","s">>

SenderIpKey == <<"s","e","n","d","e","r","_","i","p">>
SenderPortKey == <<"s","e","n","d","e","r","_","p","o","r","t">>

\* The body send_peer builds for a message.
SentMessage(text, ip, port, user) ==
    PyDict(<< <<MessageKey, PyStr(text)>>, <<SenderIpKey, PyStr(ip)>>,
              <<SenderPortKey, PyInt(port)>>, <<<<"u","s","e","r","n","a","m","e">>, PyStr(user)>> >>)

\* The values whose JSON text a peer is sent: messages of two senders, a
\* message that names no sender, and a value that is no object.
JsonValues ==
    { SentMessage(text, s[1], s[2], Ann) :
          text \in {<<"h","i">>, <<"y","o">>}, s \in {<<<<"1","0",".","0",".","0",".","7">>, 9005>>, <<<<"1","0",".","0",".","0",".","8">>, 9006>>} }
    \cup { PyDict(<< <<MessageKey, PyStr(<<"h","i">>)>> >>), PyList(<<>>) }

\* json.loads(text): the value the text stands for; [exc |-> "JSONDecodeError"]
\* for a text that is not JSON.
JsonLoads(text) ==
    IF \E v \in JsonValues : JsonDumps(v) = text
    THEN [exc |-> "", value |-> CHOOSE v \in JsonValues : JsonDumps(v) = text]
    ELSE [exc |-> "JSONDecodeError", value |-> PyNone]

\* Two keys (sender_ip, sender_port) of received_messages are equal.
SenderEq(a, b) == PyEq(a[1], b[1]) /\ PyEq(a[2], b[2])

\* received_messages[key] = msg
InboxSet(inbox, key, msg) ==
    IF \E i \in 1..Len(inbox) : SenderEq(inbox[i][1], key)
    THEN [i \in 1..Len(inbox) |->
             IF SenderEq(inbox[i][1], key) THEN <<inbox[i][1], msg>> ELSE inbox[i]]
    ELSE Append(inbox, <<key, msg>>)

\* receive_message(headers, body)
ReceiveMessageCall(b, inbox) ==
    LET loaded == JsonLoads(b)
        msg == loaded.value
    IN  IF loaded.exc # "" THEN [exc |-> loaded.exc, result |-> PyNone, inbox |-> inbox]
        ELSE IF msg[1] # "dict"
        THEN [exc |-> "AttributeError", result |-> PyNone, inbox |-> inbox]
        ELSE [exc |-> "",
              result |-> PyDict(<< <<StatusKey, PyStr(Success)>>,
                                   <<MessageKey, PyStr(<<"M","e","s","s","a","g","e"," ","r","e","c","e","i","v","e","d">>)>> >>),
              inbox |-> InboxSet(inbox, <<DictGet(msg[2], SenderIpKey, PyNone),
                                          DictGet(msg[2], SenderPortKey, PyNone)>>, msg)]

\* "entry = dict(msg); entry['sender_ip'] = sender_ip;
\*  entry['sender_port'] = sender_port"
EntryOf(key, msg) ==
    PyDict(DictSet(DictSet(msg[2], SenderIpKey, key[1]), SenderPortKey, key[2]))

\* get_received_messages(headers, body): every stored message goes into the
\* list that is returned as JSON text, and its key is popped.
GetReceivedMessagesCall(inbox) ==
    LET formatted == [i \in 1..Len(inbox) |-> EntryOf(inbox[i][1], inbox[i][2])]
    IN  [exc |-> "", result |-> PyStr(JsonDumps(PyList(formatted))),
         entries |-> formatted, inbox |-> <<>>]

\* The routes register_peer_routes adds that take part here.
PeerRoutes ==
    << <<<<POST, ReceiveMessagePath>>, ReceiveMessageHandler>>,
       <<<<GET, GetReceivedMessagesPath>>, GetReceivedMessagesHandler>> >>

HandleReceiveMessage ==
    /\ Parsed /\ hook = ReceiveMessageHandler
    /\ LET out == ReceiveMessageCall(body, receivedMessages)
       IN  /\ receivedMessages' = out.inbox
           /\ accepted' = IF out.exc = "" THEN Append(accepted, JsonLoads(body).value)
                          ELSE accepted
           /\ Respond(out)
    /\ UNCHANGED <<polled, peerDict, activePeers, database, threadVars>>

HandleGetReceivedMessages ==
    /\ Parsed /\ hook = GetReceivedMessagesHandler
    /\ LET out == GetReceivedMessagesCall(receivedMessages)
       IN  /\ receivedMessages' = out.inbox
           /\ polled' = polled \o out.entries
           /\ Respond(out)
    /\ UNCHANGED <<accepted, peerDict, activePeers, database, threadVars>>

\* The number of messages a peer is sent in a run.
MaxMessages == 3

PeerMessages ==
    { PostMessage(ReceiveMessagePath, JsonDumps(v)) : v \in JsonValues }
    \cup { PostMessage(ReceiveMessagePath, <<"h","i">>),
           GET \o SP \o GetReceivedMessagesPath \o SP \o Http11 \o BodyPattern }

InitPeer ==
    /\ RequestIdle
    /\ ProxyIdle
    /\ ResponseIdle /\ files = <<>> /\ hookResult = PyNone
    /\ TrackerIdle /\ database = <<>>

NextPeer ==
    /\ \/ /\ Len(accepted) < MaxMessages
          /\ \E msg \in PeerMessages : Receive(msg)
       \/ Prepare(PeerRoutes) /\ UNCHANGED restVars
       \/ HandleReceiveMessage /\ UNCHANGED reqVars
       \/ HandleGetReceivedMessages /\ UNCHANGED reqVars
    /\ UNCHANGED proxyVars

SpecPeer == InitPeer /\ [][NextPeer]_vars

\* How many times v occurs in a list.
Count(list, v) == Cardinality({i \in 1..Len(list) : list[i] = v})

\* What a poll returns for an accepted message.
Delivery(msg) ==
    EntryOf(<<DictGet(msg[2], SenderIpKey, PyNone), DictGet(msg[2], SenderPortKey, PyNone)>>, msg)

\* The deliveries still to come: one for every message in the inbox.
Pending == [i \in 1..Len(receivedMessages) |->
               EntryOf(receivedMessages[i][1], receivedMessages[i][2])]

\* The deliveries owed: one for every accepted message.
Owed == [i \in 1..Len(accepted) |-> Delivery(accepted[i])]

\* A poll was just answered.
JustPolled == respPc = "returned" /\ hook = GetReceivedMessagesHandler

\* C30: for any interleaving of /receive-message and /get-received-messages
\* requests, every message /receive-message accepted (answered status
\* success) is returned by exactly one later poll, never lost and never
\* returned twice, and the inbox is empty right after a poll.
C30_ExactlyOnceDelivery ==
    /\ \A i \in 1..Len(Owed) :
          Count(Owed, Owed[i]) = Count(polled, Owed[i]) + Count(Pending, Owed[i])
    /\ JustPolled => receivedMessages = <<>>

\* What does hold: nothing is returned that was not accepted, nothing more
\* often than it was accepted, and the inbox is empty right after a poll.
NeverReturnedTwice ==
    /\ \A i \in 1..Len(polled) :
          Count(polled, polled[i]) + Count(Pending, polled[i]) <= Count(Owed, polled[i])
    /\ JustPolled => receivedMessages = <<>> /\ Is200(response)

\* The inbox holds one message for a sender: the last one accepted from it.
InboxKeepsLastPerSender ==
    \A i, j \in 1..Len(receivedMessages) :
        i # j => ~SenderEq(receivedMessages[i][1], receivedMessages[j][1])

\* Every accepted message was answered with status success.
AcceptedIsAnsweredSuccess ==
    (respPc = "returned" /\ hook = ReceiveMessageHandler) =>
        /\ Is200(response)
        /\ RespBody(response) = <<"{",Quote,"s","t","a","t","u","s",Quote,":"," ",Quote,"s","u","c","c","e","s","s",Quote,","," ",Quote,"m","e","s","s","a","g","e",Quote,":"," ",Quote,"M","e","s","s","a","g","e"," ","r","e","c","e","i","v","e","d",Quote,"}">>

\* An accepted message was replaced in the inbox before any poll: it is
\* neither waiting nor was it returned.
MessageLost ==
    \E i \in 1..Len(Owed) :
        /\ Count(polled, Owed[i]) + Count(Pending, Owed[i]) < Count(Owed, Owed[i])
        /\ JustPolled


\* Two messages of one sender were accepted before a poll, and the poll
\* returned the second only.
FirstOfTwoLost ==
    /\ JustPolled
    /\ accepted = <<SentMessage(<<"h","i">>, <<"1","0",".","0",".","0",".","7">>, 9005, Ann),
                    SentMessage(<<"y","o">>, <<"1","0",".","0",".","0",".","7">>, 9005, Ann)>>
    /\ polled = <<SentMessage(<<"y","o">>, <<"1","0",".","0",".","0",".","7">>, 9005, Ann)>>
    /\ receivedMessages = <<>>

====
